---- MODULE Spec2Model ----
(***************************************************************************)
(* The server-side state engine of the tile puzzle game: the GameState      *)
(* store (lib/gameState.ts), the movement validator, and the request        *)
(* handlers of the character API (multi-move, switch-agent, use-button,     *)
(* use-pc, reset, level/set) together with broadcastPositionUpdate and the  *)
(* event stream of GET character/events.                                    *)
(*                                                                         *)
(* Coordinates are 0-based as in the source; a layout is a sequence of rows *)
(* and a row a sequence of one-character strings, so the source's           *)
(* layout[y][x] is layout[y + 1][x + 1] here.  The background symbol of the *)
(* level files (a shaded block character) is written ".".                   *)
(***************************************************************************)
EXTENDS Integers, Sequences, FiniteSets, TLC

VARIABLES
    agents,            \* GameState.agents: sequence of positions
    activeAgent,       \* GameState.activeAgent
    currentLevel,      \* GameState.currentLevel, as an index into Levels
    bridgesActivated,  \* GameState.bridgesActivated
    pc,                \* where the running handler is: "idle", "loop", "return"
    mm,                \* locals of the multi-move handler
    emitted,           \* snapshots broadcast by the current (or last) command
    request,           \* the request the current (or last) command was given
    response,          \* the response of the last finished command
    moveCheck,         \* the last direct call of canMoveToPosition and its result
    clients,           \* events route: the set `clients` of stream controllers
    streams,           \* per controller: the state of its stream, what it was sent
    lastMessageId,     \* agent/events route: the id given to the last message added
    agentMessages,     \* agent/events route: the payloads broadcast, in order
    gameSettings,      \* gameLogic.ts: the settings of the grid-combat prototype
    gameState          \* gameLogic.ts: field, turn, status and winner of that game

store == <<agents, activeAgent, currentLevel, bridgesActivated>>
channel == <<clients, streams>>
agentChannel == <<lastMessageId, agentMessages>>
combat == <<gameSettings, gameState>>
vars == <<agents, activeAgent, currentLevel, bridgesActivated, pc, mm, emitted,
          request, response, moveCheck, clients, streams,
          lastMessageId, agentMessages, gameSettings, gameState>>

----------------------------------------------------------------------------
(* Bounds of the model and constants of the program *)

\* How far outside the legal range the inputs are drawn (steps, agent
\* indices, coordinates handed to the validator).
InputMargin == 1

\* How many event streams are opened
MaxHandles == 2
\* Commands are taken while every listening stream was sent less than this
MaxReceived == 3
MinSteps == 1
MaxSteps == 10

EmptyTile == "."

Pos(x, y) == [x |-> x, y |-> y]

----------------------------------------------------------------------------
(* Level data: the LevelData a client hands to level/set *)

\* One agent, a ladder and the computer: a lower walkway x = 0..2 closed by
\* the wall at (3,2), a ladder in column 2, an upper walkway x = 3..5 with
\* the computer at (4,1).
Level1 ==
    [ size |-> [width |-> 6, height |-> 4],
      starting_position |-> Pos(0, 2),
      has_starting_position_2 |-> FALSE,
      starting_position_2 |-> Pos(0, 0),
      layout |-> << <<".", ".", ".", ".", ".", ".">>,
                    <<".", ".", "|", ".", "C", ".">>,
                    <<".", ".", "|", "#", "#", "#">>,
                    <<"#", "#", "#", "#", "#", "#">> >> ]

\* Two agents, a button and two bridge cells: one bridge cell in the walkway
\* (3,1) and one in the floor (4,2); the computer at (5,1).
Level2 ==
    [ size |-> [width |-> 6, height |-> 3],
      starting_position |-> Pos(0, 1),
      has_starting_position_2 |-> TRUE,
      starting_position_2 |-> Pos(2, 0),
      layout |-> << <<".", ".", "|", ".", ".", ".">>,
                    <<".", "B", "|", "Z", ".", "C">>,
                    <<"#", "#", "#", "#", "Z", "#">> >> ]

\* The boundary-test level of the design notes: rows "#####", "#C#.#",
\* "#####", the agent enclosed at (3,1).
Level3 ==
    [ size |-> [width |-> 5, height |-> 3],
      starting_position |-> Pos(3, 1),
      has_starting_position_2 |-> FALSE,
      starting_position_2 |-> Pos(0, 0),
      layout |-> << <<"#", "#", "#", "#", "#">>,
                    <<"#", "C", "#", ".", "#">>,
                    <<"#", "#", "#", "#", "#">> >> ]

Levels == <<Level1, Level2, Level3>>

LevelIds == DOMAIN Levels

\* The level the store is constructed with (level1.json, whose content is
\* level data like any other; Level1 stands for it).
level1Data == 1

----------------------------------------------------------------------------
(* GameState: the store *)

getAgentCount == Len(agents)

\* getPosition(agentIndex) with an explicit index
getPositionAt(index) ==
    IF index < 0 \/ index >= Len(agents)
    THEN Pos(0, 0)
    ELSE agents[index + 1]

\* getPosition() without an index: the active agent
getPosition == getPositionAt(activeAgent)

\* The value of this.agents after setPosition(newPosition, index).  A JS
\* array assignment at index = length appends; beyond it the skipped slots
\* are holes; a negative index sets a property that is no element.
Hole == [hole |-> TRUE]

setPosition(newPosition, index) ==
    IF index < 0
    THEN agents
    ELSE [k \in 1..(IF index + 1 > Len(agents) THEN index + 1 ELSE Len(agents)) |->
            IF k = index + 1 THEN newPosition
            ELSE IF k <= Len(agents) THEN agents[k]
            ELSE Hole]

\* The value of this.activeAgent after setActiveAgent(index)
setActiveAgent(index) ==
    IF index >= 0 /\ index < Len(agents) THEN index ELSE activeAgent

\* Mutant: the second starting position is never added
levelAgents_FirstStartOnly(levelData) ==
    <<Levels[levelData].starting_position>>

\* The value of this.agents after setCurrentLevel(levelData)
levelAgents(levelData) ==
    IF Levels[levelData].has_starting_position_2
    THEN <<Levels[levelData].starting_position, Levels[levelData].starting_position_2>>
    ELSE <<Levels[levelData].starting_position>>

getTileAt(x, y) ==
    IF \/ x < 0
       \/ x >= Levels[currentLevel].size.width
       \/ y < 0
       \/ y >= Levels[currentLevel].size.height
    THEN EmptyTile
    ELSE Levels[currentLevel].layout[y + 1][x + 1]

\* Mutant: the bridges are lowered for the first agent only
getEffectiveTileAt_FirstAgentOnly(x, y) ==
    IF bridgesActivated /\ activeAgent = 0 /\ getTileAt(x, y) = "Z"
    THEN "T"
    ELSE getTileAt(x, y)

\* Mutant: a bridge reads as lowered whatever the flag
getEffectiveTileAt_AnyBridge(x, y) ==
    IF getTileAt(x, y) = "Z"
    THEN "T"
    ELSE getTileAt(x, y)

getEffectiveTileAt(x, y) ==
    IF bridgesActivated /\ getTileAt(x, y) = "Z"
    THEN "T"
    ELSE getTileAt(x, y)

\* Mutant: the bridge flag is flipped instead of set
activateBridges_Toggle == ~bridgesActivated

\* The value of this.bridgesActivated after activateBridges()
activateBridges == TRUE

\* The value of this.bridgesActivated after resetBridges()
resetBridges == FALSE

\* Mutant: a lowered bridge is not accepted as ground
horizontalMove_NoBridgeGround(targetGroundTile) ==
    IF targetGroundTile # "#" /\ targetGroundTile # "|"
    THEN [canMove |-> FALSE, reason |-> "No platform under target position"]
    ELSE [canMove |-> TRUE]

\* Horizontal movement: the branch taken when from.y === to.y
horizontalMove(targetGroundTile) ==
    IF targetGroundTile # "#" /\ targetGroundTile # "|" /\ targetGroundTile # "T"
    THEN [canMove |-> FALSE, reason |-> "No platform under target position"]
    ELSE [canMove |-> TRUE]

\* Mutant: the ladder is looked for under the agent, as for moving down
moveUp_LadderBelow(currentTile) ==
    IF currentTile = "|"
    THEN [canMove |-> FALSE, reason |-> "Must be on ladder to move up"]
    ELSE [canMove |-> TRUE]

\* Moving up: the branch taken when from.x === to.x and to.y < from.y
moveUp(currentTile) ==
    IF currentTile # "|"
    THEN [canMove |-> FALSE, reason |-> "Must be on ladder to move up"]
    ELSE [canMove |-> TRUE]

\* Moving down: the branch taken when from.x === to.x and to.y > from.y
moveDown(currentGroundTile) ==
    IF currentGroundTile # "|"
    THEN [canMove |-> FALSE, reason |-> "No ladder under current position to move down"]
    ELSE [canMove |-> TRUE]

\* Mutant: the rule of the direction is tried before the wall at the target
canMoveFrom_DirectionFirst(from, to) ==
    IF \/ to.x < 0
       \/ to.x >= Levels[currentLevel].size.width
       \/ to.y < 0
       \/ to.y >= Levels[currentLevel].size.height
    THEN [canMove |-> FALSE, reason |-> "Out of bounds"]
    ELSE LET currentTile == getEffectiveTileAt(from.x, from.y)
             targetTile == getEffectiveTileAt(to.x, to.y)
             targetGroundTile == getEffectiveTileAt(to.x, to.y + 1)
             currentGroundTile == getEffectiveTileAt(from.x, from.y + 1)
             byDirection ==
                 IF from.y = to.y
                 THEN horizontalMove(targetGroundTile)
                 ELSE IF from.x = to.x /\ to.y < from.y
                 THEN moveUp(currentTile)
                 ELSE IF from.x = to.x /\ to.y > from.y
                 THEN moveDown(currentGroundTile)
                 ELSE [canMove |-> FALSE, reason |-> "Invalid movement direction"]
         IN  IF ~byDirection.canMove
             THEN byDirection
             ELSE IF targetTile = "#" \/ targetTile = "Z"
             THEN [canMove |-> FALSE, reason |-> "Cannot move through wall/raised bridge"]
             ELSE byDirection

\* Mutant: a solid target cell is not refused
canMoveFrom_IntoWalls(from, to) ==
    IF \/ to.x < 0
       \/ to.x >= Levels[currentLevel].size.width
       \/ to.y < 0
       \/ to.y >= Levels[currentLevel].size.height
    THEN [canMove |-> FALSE, reason |-> "Out of bounds"]
    ELSE LET currentTile == getEffectiveTileAt(from.x, from.y)
             targetTile == getEffectiveTileAt(to.x, to.y)
             targetGroundTile == getEffectiveTileAt(to.x, to.y + 1)
             currentGroundTile == getEffectiveTileAt(from.x, from.y + 1)
         IN  IF from.y = to.y
             THEN horizontalMove(targetGroundTile)
             ELSE IF from.x = to.x /\ to.y < from.y
             THEN moveUp(currentTile)
             ELSE IF from.x = to.x /\ to.y > from.y
             THEN moveDown(currentGroundTile)
             ELSE [canMove |-> FALSE, reason |-> "Invalid movement direction"]

\* The body of canMoveToPosition once `from` has been read
canMoveFrom(from, to) ==
    IF \/ to.x < 0
       \/ to.x >= Levels[currentLevel].size.width
       \/ to.y < 0
       \/ to.y >= Levels[currentLevel].size.height
    THEN [canMove |-> FALSE, reason |-> "Out of bounds"]
    ELSE LET currentTile == getEffectiveTileAt(from.x, from.y)
             targetTile == getEffectiveTileAt(to.x, to.y)
             targetGroundTile == getEffectiveTileAt(to.x, to.y + 1)
             currentGroundTile == getEffectiveTileAt(from.x, from.y + 1)
         IN  IF targetTile = "#" \/ targetTile = "Z"
             THEN [canMove |-> FALSE, reason |-> "Cannot move through wall/raised bridge"]
             ELSE IF from.y = to.y
             THEN horizontalMove(targetGroundTile)
             ELSE IF from.x = to.x /\ to.y < from.y
             THEN moveUp(currentTile)
             ELSE IF from.x = to.x /\ to.y > from.y
             THEN moveDown(currentGroundTile)
             ELSE [canMove |-> FALSE, reason |-> "Invalid movement direction"]

\* canMoveToPosition(to): `from` is the position of the ACTIVE agent
canMoveToPosition(to) == canMoveFrom(getPosition, to)

----------------------------------------------------------------------------
(* The validator driven directly: the store holds any level, bridge flag    *)
(* and position, and canMoveToPosition is called with any target.           *)

NoCheck == [asked |-> FALSE]

Coords(level) ==
    { Pos(x, y) : x \in (0 - InputMargin)..(Levels[level].size.width - 1 + InputMargin),
                  y \in (0 - InputMargin)..(Levels[level].size.height - 1 + InputMargin) }

\* The cells of a level's grid
Cells(level) ==
    { Pos(x, y) : x \in 0..(Levels[level].size.width - 1),
                  y \in 0..(Levels[level].size.height - 1) }

\* The stream controllers there can be, and one not created yet
Handles == 1..MaxHandles
NoStream == [state |-> "unused", received |-> << >>]

\* gameLogic.ts: the default settings (moveRange, attackRange and
\* obstacleCount are never changed by the calls made here and are kept as
\* the definitions below)
defaultSettings == [redPlayerHP |-> 10, bluePlayerHP |-> 10]

\* gameLogic.ts: the game before initializeGame has run; winner "none" stands
\* for the absent field
setupState ==
    [ characters |-> << >>,
      obstacles |-> {},
      currentTurn |-> "red",
      gameStatus |-> "setup",
      winner |-> "none",
      turnNumber |-> 1 ]

NoMM == [running |-> FALSE]
NoRequest == [cmd |-> "none"]
NoResponse == [cmd |-> "none"]

InitValidator ==
    /\ currentLevel \in LevelIds
    /\ bridgesActivated \in BOOLEAN
    /\ \E from \in Cells(currentLevel) : agents = <<from>>
    /\ activeAgent = 0
    /\ pc = "idle"
    /\ mm = NoMM
    /\ emitted = << >>
    /\ clients = {}
    /\ streams = [h \in Handles |-> NoStream]
    /\ request = NoRequest
    /\ response = NoResponse
    /\ moveCheck = NoCheck
    /\ lastMessageId = 0
    /\ agentMessages = << >>
    /\ gameSettings = defaultSettings
    /\ gameState = setupState

CallCanMoveToPosition(to) ==
    /\ moveCheck' = [asked |-> TRUE, from |-> getPosition, to |-> to,
                     result |-> canMoveToPosition(to)]
    /\ UNCHANGED <<agents, activeAgent, currentLevel, bridgesActivated, pc, mm,
                   emitted, clients, streams, request, response,
                   agentChannel, combat>>


----------------------------------------------------------------------------
(* GameState: what an agent may do where it stands, and the two use checks  *)

Opt(cond, action) == IF cond THEN <<action>> ELSE << >>

\* Mutant: left and right are offered for a platform beside the agent, not
\* diagonally below it
getAvailableActions_PlatformBeside ==
    LET x == getPosition.x
        y == getPosition.y
        currentTile == getTileAt(x, y)
        groundTile == getTileAt(x, y + 1)
        leftGroundTile == getTileAt(x - 1, y + 1)
        rightGroundTile == getTileAt(x + 1, y + 1)
        leftTile == getTileAt(x - 1, y)
        rightTile == getTileAt(x + 1, y)
        upTile == getTileAt(x, y - 1)
        downTile == getTileAt(x, y + 1)
    IN  Opt(leftTile = "#", "multi_move[left]")
        \o Opt(rightTile = "#", "multi_move[right]")
        \o Opt(currentTile = "|", "multi_move[up]")
        \o Opt(groundTile = "|", "multi_move[down]")
        \o Opt(\/ currentTile = "C" \/ leftTile = "C" \/ rightTile = "C"
               \/ upTile = "C" \/ downTile = "C", "use_pc")
        \o Opt(\/ currentTile = "B" \/ leftTile = "B" \/ rightTile = "B"
               \/ upTile = "B" \/ downTile = "B", "use_button")

\* getAvailableActions(): reads the position of the ACTIVE agent and the raw
\* tiles around it; the actions in the order the source pushes them.
getAvailableActions ==
    LET x == getPosition.x
        y == getPosition.y
        currentTile == getTileAt(x, y)
        groundTile == getTileAt(x, y + 1)
        leftGroundTile == getTileAt(x - 1, y + 1)
        rightGroundTile == getTileAt(x + 1, y + 1)
        leftTile == getTileAt(x - 1, y)
        rightTile == getTileAt(x + 1, y)
        upTile == getTileAt(x, y - 1)
        downTile == getTileAt(x, y + 1)
    IN  Opt(leftGroundTile = "#", "multi_move[left]")
        \o Opt(rightGroundTile = "#", "multi_move[right]")
        \o Opt(currentTile = "|", "multi_move[up]")
        \o Opt(groundTile = "|", "multi_move[down]")
        \o Opt(\/ currentTile = "C" \/ leftTile = "C" \/ rightTile = "C"
               \/ upTile = "C" \/ downTile = "C", "use_pc")
        \o Opt(\/ currentTile = "B" \/ leftTile = "B" \/ rightTile = "B"
               \/ upTile = "B" \/ downTile = "B", "use_button")

\* Whether symbol is on the active agent's cell or one of its 4 neighbours:
\* the test canUseComputer and canUseButton share
nearby(symbol) ==
    LET x == getPosition.x
        y == getPosition.y
    IN  \/ getTileAt(x, y) = symbol
        \/ getTileAt(x - 1, y) = symbol
        \/ getTileAt(x + 1, y) = symbol
        \/ getTileAt(x, y - 1) = symbol
        \/ getTileAt(x, y + 1) = symbol

\* Mutant: the computer counts only on the agent's own cell
canUseComputer_OwnCellOnly ==
    IF getTileAt(getPosition.x, getPosition.y) = "C" THEN [canUse |-> TRUE]
    ELSE [canUse |-> FALSE, reason |-> "No computer nearby"]

canUseComputer ==
    IF nearby("C") THEN [canUse |-> TRUE]
    ELSE [canUse |-> FALSE, reason |-> "No computer nearby"]

\* Mutant: the button counts only on the agent's own cell
canUseButton_OwnCellOnly ==
    IF getTileAt(getPosition.x, getPosition.y) = "B" THEN [canUse |-> TRUE]
    ELSE [canUse |-> FALSE, reason |-> "No button nearby"]

canUseButton ==
    IF nearby("B") THEN [canUse |-> TRUE]
    ELSE [canUse |-> FALSE, reason |-> "No button nearby"]

\* getAvailableActions() called directly, response its return value
CallGetAvailableActions ==
    /\ request' = [cmd |-> "getAvailableActions"]
    /\ response' = [cmd |-> "getAvailableActions", value |-> getAvailableActions]
    /\ UNCHANGED <<agents, activeAgent, currentLevel, bridgesActivated, pc, mm,
                   emitted, clients, streams, moveCheck, agentChannel, combat>>

NextValidator ==
    \/ \E to \in Coords(currentLevel) : CallCanMoveToPosition(to)
    \/ CallGetAvailableActions

SpecValidator == InitValidator /\ [][NextValidator]_vars

----------------------------------------------------------------------------
(* The broadcast *)

\* controller.enqueue throws once the stream of the controller is closed
enqueueThrows(h) == streams[h].state # "open"

\* Mutant: the message goes to the first controller of the set only
deliver_FirstOnly(message) ==
    LET first(h) == \A g \in clients : g >= h
    IN  /\ clients' = { h \in clients : ~(first(h) /\ enqueueThrows(h)) }
        /\ streams' = [h \in Handles |->
                          IF h \in clients /\ first(h) /\ ~enqueueThrows(h)
                          THEN [streams[h] EXCEPT !.received = Append(@, message)]
                          ELSE streams[h]]

\* Mutant: the forEach stops at the first controller whose enqueue throws
deliver_StopsAtFailure(message) ==
    LET reached(h) == \A g \in clients : g < h => ~enqueueThrows(g)
    IN  /\ clients' = { h \in clients : ~(reached(h) /\ enqueueThrows(h)) }
        /\ streams' = [h \in Handles |->
                          IF h \in clients /\ reached(h) /\ ~enqueueThrows(h)
                          THEN [streams[h] EXCEPT !.received = Append(@, message)]
                          ELSE streams[h]]

\* clients.forEach of broadcastPositionUpdate: the message is enqueued on
\* every controller of the set; one whose enqueue throws is deleted from the
\* set in the catch.  Deleting from a Set inside its forEach does not disturb
\* the visit of the others.
deliver(message) ==
    /\ clients' = { h \in clients : ~enqueueThrows(h) }
    /\ streams' = [h \in Handles |->
                      IF h \in clients /\ ~enqueueThrows(h)
                      THEN [streams[h] EXCEPT !.received = Append(@, message)]
                      ELSE streams[h]]

\* Mutant: the position of the message is always the first agent's
Snapshot_FirstAgentPosition ==
    [ type |-> "position_update",
      agents |-> agents,
      activeAgent |-> activeAgent,
      agentCount |-> getAgentCount,
      position |-> getPositionAt(0),
      bridgesActivated |-> bridgesActivated,
      map |-> Levels[currentLevel].layout ]

\* The message broadcastPositionUpdate builds from the store (the timestamp
\* is left out)
Snapshot ==
    [ type |-> "position_update",
      agents |-> agents,
      activeAgent |-> activeAgent,
      agentCount |-> getAgentCount,
      position |-> getPosition,
      bridgesActivated |-> bridgesActivated,
      map |-> Levels[currentLevel].layout ]

\* broadcastPositionUpdate(), called once the handler has written the store:
\* the message is built from the store as it is now and sent out. `sofar` are
\* the messages the running command has sent before.
broadcastPositionUpdate(sofar) ==
    /\ emitted' = Append(sofar, Snapshot')
    /\ deliver(Snapshot')

----------------------------------------------------------------------------
(* The request handlers.  A handler runs without interruption from the      *)
(* point where its request body has been read: no other handler takes a     *)
(* step while pc is not "idle".                                             *)

Directions == {"left", "right", "up", "down"}

directionMap ==
    [ left |-> Pos(-1, 0), right |-> Pos(1, 0), up |-> Pos(0, -1), down |-> Pos(0, 1) ]

\* Request bodies of multi-move.  direction "" stands for a missing (falsy)
\* direction and "diagonal" for a string that is no key of directionMap;
\* stepsIsNumber = FALSE for a steps value that is no number; hasAgentIndex =
\* FALSE for a body without agentIndex.  Well-formed bodies are drawn in
\* full; malformed ones are malformed in one field at a time.
MultiMoveBody(d, n, isNumber, hasIndex, a) ==
    [direction |-> d, steps |-> n, stepsIsNumber |-> isNumber,
     hasAgentIndex |-> hasIndex, agentIndex |-> a]

MultiMoveBodies ==
    { MultiMoveBody(d, n, TRUE, TRUE, a) :
         d \in Directions, n \in MinSteps..MaxSteps, a \in 0..(getAgentCount - 1) }
    \cup
    { MultiMoveBody(d, n, TRUE, FALSE, 0) :
         d \in Directions, n \in MinSteps..MaxSteps }
    \cup
    { MultiMoveBody(d, n, TRUE, TRUE, 0) :
         d \in Directions,
         n \in ((MinSteps - InputMargin)..(MinSteps - 1))
                  \cup ((MaxSteps + 1)..(MaxSteps + InputMargin)) }
    \cup
    { MultiMoveBody(d, MinSteps, FALSE, TRUE, 0) : d \in {"right"} }
    \cup
    { MultiMoveBody(d, n, TRUE, TRUE, 0) :
         d \in {"", "diagonal"}, n \in {MinSteps, MaxSteps} }
    \cup
    { MultiMoveBody(d, MinSteps, TRUE, TRUE, a) :
         d \in Directions,
         a \in ((0 - InputMargin)..(0 - 1))
                  \cup (getAgentCount..(getAgentCount - 1 + InputMargin)) }

BadRequest(cmd, error) ==
    [cmd |-> cmd, status |-> 400, success |-> FALSE, error |-> error]

ServerError(cmd, error) ==
    [cmd |-> cmd, status |-> 500, success |-> FALSE, error |-> error]

Running(cmd) == [cmd |-> cmd, status |-> 0]

\* Mutant: agentIndex is not validated
MultiMove_NoIndexCheck(body) ==
    /\ pc = "idle"
    /\ request' = [cmd |-> "multiMove", body |-> body]
    /\ emitted' = << >>
    /\ UNCHANGED channel
    /\ UNCHANGED <<agents, activeAgent, currentLevel, bridgesActivated, moveCheck, agentChannel, combat>>
    /\ LET agentIndex == IF body.hasAgentIndex THEN body.agentIndex ELSE 0
       IN  IF \/ body.direction = ""
              \/ ~body.stepsIsNumber
              \/ body.steps < MinSteps
              \/ body.steps > MaxSteps
           THEN /\ response' = BadRequest("multiMove",
                                   "Invalid request. Need direction and steps (1-10)")
                /\ mm' = NoMM
                /\ pc' = "idle"
           ELSE /\ response' = Running("multiMove")
                /\ mm' = [ running |-> TRUE,
                           direction |-> body.direction,
                           steps |-> body.steps,
                           agentIndex |-> agentIndex,
                           i |-> 0,
                           startPos |-> getPositionAt(agentIndex),
                           currentPos |-> getPositionAt(agentIndex),
                           levelCompleted |-> FALSE,
                           stepResults |-> << >> ]
                /\ pc' = "loop"

\* POST multi-move, from the parsed body to the loop's entry
MultiMove(body) ==
    /\ pc = "idle"
    /\ request' = [cmd |-> "multiMove", body |-> body]
    /\ emitted' = << >>
    /\ UNCHANGED channel
    /\ UNCHANGED <<agents, activeAgent, currentLevel, bridgesActivated, moveCheck, agentChannel, combat>>
    /\ LET agentIndex == IF body.hasAgentIndex THEN body.agentIndex ELSE 0
       IN  IF \/ body.direction = ""
              \/ ~body.stepsIsNumber
              \/ body.steps < MinSteps
              \/ body.steps > MaxSteps
           THEN /\ response' = BadRequest("multiMove",
                                   "Invalid request. Need direction and steps (1-10)")
                /\ mm' = NoMM
                /\ pc' = "idle"
           ELSE IF agentIndex < 0 \/ agentIndex >= getAgentCount
           THEN /\ response' = BadRequest("multiMove", "Invalid agent index")
                /\ mm' = NoMM
                /\ pc' = "idle"
           ELSE /\ response' = Running("multiMove")
                /\ mm' = [ running |-> TRUE,
                           direction |-> body.direction,
                           steps |-> body.steps,
                           agentIndex |-> agentIndex,
                           i |-> 0,
                           startPos |-> getPositionAt(agentIndex),
                           currentPos |-> getPositionAt(agentIndex),
                           levelCompleted |-> FALSE,
                           stepResults |-> << >> ]
                /\ pc' = "loop"

\* Mutant: the position is written to the active agent, not to agentIndex
MoveCommitted_ToActiveAgent(nextPos) ==
    /\ agents' = setPosition(nextPos, activeAgent)
    /\ broadcastPositionUpdate(emitted)
    /\ LET targetTile == getEffectiveTileAt(nextPos.x, nextPos.y)
           levelCompleted == mm.levelCompleted \/ targetTile = "C"
       IN  /\ mm' = [mm EXCEPT
                  !.currentPos = nextPos,
                  !.levelCompleted = levelCompleted,
                  !.i = mm.i + 1,
                  !.stepResults = Append(@,
                      [ result |-> TRUE,
                        available_actions |-> getAvailableActions',
                        position |-> nextPos,
                        level_completed |-> levelCompleted ])]
           /\ pc' = IF levelCompleted \/ mm.i + 1 >= mm.steps
                    THEN "return" ELSE "loop"
    /\ UNCHANGED response

\* Mutant: the snapshot is sent before the position is written
MoveCommitted_BroadcastFirst(nextPos) ==
    /\ agents' = setPosition(nextPos, mm.agentIndex)
    /\ emitted' = Append(emitted, Snapshot)
    /\ deliver(Snapshot)
    /\ LET targetTile == getEffectiveTileAt(nextPos.x, nextPos.y)
           levelCompleted == mm.levelCompleted \/ targetTile = "C"
       IN  /\ mm' = [mm EXCEPT
                  !.currentPos = nextPos,
                  !.levelCompleted = levelCompleted,
                  !.i = mm.i + 1,
                  !.stepResults = Append(@,
                      [ result |-> TRUE,
                        available_actions |-> getAvailableActions',
                        position |-> nextPos,
                        level_completed |-> levelCompleted ])]
           /\ pc' = IF levelCompleted \/ mm.i + 1 >= mm.steps
                    THEN "return" ELSE "loop"
    /\ UNCHANGED response

\* Mutant: the loop does not stop on the computer
MoveCommitted_PastGoal(nextPos) ==
    /\ agents' = setPosition(nextPos, mm.agentIndex)
    /\ broadcastPositionUpdate(emitted)
    /\ LET targetTile == getEffectiveTileAt(nextPos.x, nextPos.y)
           levelCompleted == mm.levelCompleted \/ targetTile = "C"
       IN  /\ mm' = [mm EXCEPT
                  !.currentPos = nextPos,
                  !.levelCompleted = levelCompleted,
                  !.i = mm.i + 1,
                  !.stepResults = Append(@,
                      [ result |-> TRUE,
                        available_actions |-> getAvailableActions',
                        position |-> nextPos,
                        level_completed |-> levelCompleted ])]
           /\ pc' = IF mm.i + 1 >= mm.steps THEN "return" ELSE "loop"
    /\ UNCHANGED response

\* Mutant: the level counts as completed when the cell left is the computer
MoveCommitted_CompletedOnLeaving(nextPos) ==
    /\ agents' = setPosition(nextPos, mm.agentIndex)
    /\ broadcastPositionUpdate(emitted)
    /\ LET targetTile == getEffectiveTileAt(mm.currentPos.x, mm.currentPos.y)
           levelCompleted == mm.levelCompleted \/ targetTile = "C"
       IN  /\ mm' = [mm EXCEPT
                  !.currentPos = nextPos,
                  !.levelCompleted = levelCompleted,
                  !.i = mm.i + 1,
                  !.stepResults = Append(@,
                      [ result |-> TRUE,
                        available_actions |-> getAvailableActions',
                        position |-> nextPos,
                        level_completed |-> levelCompleted ])]
           /\ pc' = IF levelCompleted \/ mm.i + 1 >= mm.steps
                    THEN "return" ELSE "loop"
    /\ UNCHANGED response

\* The loop body when the validator allows the step: commit, broadcast,
\* record the outcome, stop on the computer
MoveCommitted(nextPos) ==
    /\ agents' = setPosition(nextPos, mm.agentIndex)
    /\ broadcastPositionUpdate(emitted)
    /\ LET targetTile == getEffectiveTileAt(nextPos.x, nextPos.y)
           levelCompleted == mm.levelCompleted \/ targetTile = "C"
       IN  /\ mm' = [mm EXCEPT
                  !.currentPos = nextPos,
                  !.levelCompleted = levelCompleted,
                  !.i = mm.i + 1,
                  !.stepResults = Append(@,
                      [ result |-> TRUE,
                        available_actions |-> getAvailableActions',
                        position |-> nextPos,
                        level_completed |-> levelCompleted ])]
           /\ pc' = IF levelCompleted \/ mm.i + 1 >= mm.steps
                    THEN "return" ELSE "loop"
    /\ UNCHANGED response

\* Mutant: a refused step is recorded and the loop goes on
MoveRefused_NoBreak(check) ==
    /\ mm' = [mm EXCEPT
           !.i = mm.i + 1,
           !.stepResults = Append(@,
               [ result |-> FALSE,
                 available_actions |-> getAvailableActions,
                 reason |-> check.reason,
                 position |-> mm.currentPos ])]
    /\ pc' = IF mm.i + 1 >= mm.steps THEN "return" ELSE "loop"
    /\ UNCHANGED <<agents, emitted, clients, streams, response>>

\* The loop body when the validator refuses the step: record the failure
\* and stop
MoveRefused(check) ==
    /\ mm' = [mm EXCEPT
           !.stepResults = Append(@,
               [ result |-> FALSE,
                 available_actions |-> getAvailableActions,
                 reason |-> check.reason,
                 position |-> mm.currentPos ])]
    /\ pc' = "return"
    /\ UNCHANGED <<agents, emitted, clients, streams, response>>

\* Mutant: a step committed onto a button presses it
MultiMoveStep_PressesButton ==
    /\ UNCHANGED request
    /\ pc = "loop"
    /\ UNCHANGED <<activeAgent, currentLevel, moveCheck, agentChannel, combat>>
    /\ IF mm.direction \notin DOMAIN directionMap
       THEN /\ response' = BadRequest("multiMove", "Invalid request body")
            /\ mm' = NoMM
            /\ pc' = "idle"
            /\ UNCHANGED <<agents, emitted, clients, streams, bridgesActivated>>
       ELSE LET delta == directionMap[mm.direction]
                nextPos == Pos(mm.currentPos.x + delta.x, mm.currentPos.y + delta.y)
                check == canMoveToPosition(nextPos)
            IN  IF check.canMove
                THEN /\ bridgesActivated' =
                            (bridgesActivated \/ getTileAt(nextPos.x, nextPos.y) = "B")
                     /\ MoveCommitted(nextPos)
                ELSE /\ UNCHANGED bridgesActivated
                     /\ MoveRefused(check)

\* One pass through the loop body of multi-move
MultiMoveStep ==
    /\ UNCHANGED request
    /\ pc = "loop"
    /\ UNCHANGED <<activeAgent, currentLevel, bridgesActivated, moveCheck, agentChannel, combat>>
    /\ IF mm.direction \notin DOMAIN directionMap
       THEN \* delta is undefined: reading delta.x throws, the catch answers
            /\ response' = BadRequest("multiMove", "Invalid request body")
            /\ mm' = NoMM
            /\ pc' = "idle"
            /\ UNCHANGED <<agents, emitted, clients, streams>>
       ELSE LET delta == directionMap[mm.direction]
                nextPos == Pos(mm.currentPos.x + delta.x, mm.currentPos.y + delta.y)
                check == canMoveToPosition(nextPos)
            IN  IF check.canMove
                THEN MoveCommitted(nextPos)
                ELSE MoveRefused(check)

\* multi-move answers
MultiMoveReturn ==
    /\ UNCHANGED request
    /\ pc = "return"
    /\ response' = [ cmd |-> "multiMove", status |-> 200, success |-> TRUE,
                     steps |-> mm.stepResults,
                     final_position |-> mm.currentPos,
                     level_completed |-> mm.levelCompleted ]
    /\ mm' = [mm EXCEPT !.running = FALSE]
    /\ pc' = "idle"
    /\ UNCHANGED <<agents, activeAgent, currentLevel, bridgesActivated, emitted, clients, streams,
                   moveCheck, agentChannel, combat>>

\* Request bodies of level/set: levelData names the level sent, missing what
\* the body lacks ("body": the body is null, "levelData": no levelData key).
SetLevelBodies ==
    { [levelData |-> l, missing |-> m] :
        l \in LevelIds,
        m \in {"none", "body", "levelData", "size", "layout", "starting_position"} }

\* Mutant: level/set keeps the active agent index
SetLevel_KeepsActiveAgent(body) ==
    /\ pc = "idle"
    /\ request' = [cmd |-> "setLevel", body |-> body]
    /\ mm' = NoMM
    /\ pc' = "idle"
    /\ UNCHANGED <<moveCheck, agentChannel, combat>>
    /\ IF body.missing = "body"
       THEN /\ response' = ServerError("setLevel", "Failed to set level")
            /\ emitted' = << >>
            /\ UNCHANGED channel
            /\ UNCHANGED <<agents, activeAgent, currentLevel, bridgesActivated>>
       ELSE IF body.missing # "none"
       THEN /\ response' = BadRequest("setLevel",
                               "Invalid level data. Need size, layout, and starting_position")
            /\ emitted' = << >>
            /\ UNCHANGED channel
            /\ UNCHANGED <<agents, activeAgent, currentLevel, bridgesActivated>>
       ELSE \* setCurrentLevel(levelData), then setPosition(starting_position)
            /\ currentLevel' = body.levelData
            /\ UNCHANGED activeAgent
            /\ bridgesActivated' = FALSE
            /\ agents' = [levelAgents(body.levelData) EXCEPT
                              ![1] = Levels[body.levelData].starting_position]
            /\ broadcastPositionUpdate(<< >>)
            /\ response' = [ cmd |-> "setLevel", status |-> 200, success |-> TRUE,
                             startingPosition |-> Levels[body.levelData].starting_position,
                             currentPosition |-> getPosition' ]

\* Mutant: level/set runs between two passes of a multi-move loop, which
\* then goes on
SetLevel_BetweenSteps(body) ==
    /\ pc \in {"idle", "loop"}
    /\ request' = [cmd |-> "setLevel", body |-> body]
    /\ mm' = IF pc = "loop" THEN mm ELSE NoMM
    /\ pc' = pc
    /\ UNCHANGED <<moveCheck, agentChannel, combat>>
    /\ IF body.missing = "body"
       THEN /\ response' = ServerError("setLevel", "Failed to set level")
            /\ emitted' = IF pc = "loop" THEN emitted ELSE << >>
            /\ UNCHANGED channel
            /\ UNCHANGED <<agents, activeAgent, currentLevel, bridgesActivated>>
       ELSE IF body.missing # "none"
       THEN /\ response' = BadRequest("setLevel",
                               "Invalid level data. Need size, layout, and starting_position")
            /\ emitted' = IF pc = "loop" THEN emitted ELSE << >>
            /\ UNCHANGED channel
            /\ UNCHANGED <<agents, activeAgent, currentLevel, bridgesActivated>>
       ELSE \* setCurrentLevel(levelData), then setPosition(starting_position)
            /\ currentLevel' = body.levelData
            /\ activeAgent' = 0
            /\ bridgesActivated' = FALSE
            /\ agents' = [levelAgents(body.levelData) EXCEPT
                              ![1] = Levels[body.levelData].starting_position]
            /\ broadcastPositionUpdate(IF pc = "loop" THEN emitted ELSE << >>)
            /\ response' = [ cmd |-> "setLevel", status |-> 200, success |-> TRUE,
                             startingPosition |-> Levels[body.levelData].starting_position,
                             currentPosition |-> getPosition' ]

\* POST level/set
SetLevel(body) ==
    /\ pc = "idle"
    /\ request' = [cmd |-> "setLevel", body |-> body]
    /\ mm' = NoMM
    /\ pc' = "idle"
    /\ UNCHANGED <<moveCheck, agentChannel, combat>>
    /\ IF body.missing = "body"
       THEN /\ response' = ServerError("setLevel", "Failed to set level")
            /\ emitted' = << >>
            /\ UNCHANGED channel
            /\ UNCHANGED <<agents, activeAgent, currentLevel, bridgesActivated>>
       ELSE IF body.missing # "none"
       THEN /\ response' = BadRequest("setLevel",
                               "Invalid level data. Need size, layout, and starting_position")
            /\ emitted' = << >>
            /\ UNCHANGED channel
            /\ UNCHANGED <<agents, activeAgent, currentLevel, bridgesActivated>>
       ELSE \* setCurrentLevel(levelData), then setPosition(starting_position)
            /\ currentLevel' = body.levelData
            /\ activeAgent' = 0
            /\ bridgesActivated' = FALSE
            /\ agents' = [levelAgents(body.levelData) EXCEPT
                              ![1] = Levels[body.levelData].starting_position]
            /\ broadcastPositionUpdate(<< >>)
            /\ response' = [ cmd |-> "setLevel", status |-> 200, success |-> TRUE,
                             startingPosition |-> Levels[body.levelData].starting_position,
                             currentPosition |-> getPosition' ]

\* Mutant: the route lets the index one past the end through
SwitchAgent_AcceptsCount(agentIndex, isNumber) ==
    /\ pc = "idle"
    /\ request' = [cmd |-> "switchAgent", agentIndex |-> agentIndex, isNumber |-> isNumber]
    /\ mm' = NoMM
    /\ pc' = "idle"
    /\ UNCHANGED <<agents, currentLevel, bridgesActivated, moveCheck, agentChannel, combat>>
    /\ IF ~isNumber \/ agentIndex < 0 \/ agentIndex > getAgentCount
       THEN /\ response' = BadRequest("switchAgent", "Invalid agent index")
            /\ emitted' = << >>
            /\ UNCHANGED channel
            /\ UNCHANGED activeAgent
       ELSE /\ activeAgent' = setActiveAgent(agentIndex)
            /\ broadcastPositionUpdate(<< >>)
            /\ response' = [ cmd |-> "switchAgent", status |-> 200, success |-> TRUE,
                             activeAgent |-> activeAgent',
                             position |-> getPosition',
                             agentCount |-> getAgentCount',
                             allAgents |-> agents' ]

\* POST switch-agent; isNumber = FALSE for an agentIndex that is no number
SwitchAgent(agentIndex, isNumber) ==
    /\ pc = "idle"
    /\ request' = [cmd |-> "switchAgent", agentIndex |-> agentIndex, isNumber |-> isNumber]
    /\ mm' = NoMM
    /\ pc' = "idle"
    /\ UNCHANGED <<agents, currentLevel, bridgesActivated, moveCheck, agentChannel, combat>>
    /\ IF ~isNumber \/ agentIndex < 0 \/ agentIndex >= getAgentCount
       THEN /\ response' = BadRequest("switchAgent", "Invalid agent index")
            /\ emitted' = << >>
            /\ UNCHANGED channel
            /\ UNCHANGED activeAgent
       ELSE /\ activeAgent' = setActiveAgent(agentIndex)
            /\ broadcastPositionUpdate(<< >>)
            /\ response' = [ cmd |-> "switchAgent", status |-> 200, success |-> TRUE,
                             activeAgent |-> activeAgent',
                             position |-> getPosition',
                             agentCount |-> getAgentCount',
                             allAgents |-> agents' ]

\* Mutant: the bridges are activated before the button is looked for
UseButton_ActivateFirst ==
    /\ pc = "idle"
    /\ request' = [cmd |-> "useSwitch"]
    /\ mm' = NoMM
    /\ pc' = "idle"
    /\ UNCHANGED <<agents, activeAgent, currentLevel, moveCheck, agentChannel, combat>>
    /\ bridgesActivated' = activateBridges
    /\ IF ~canUseButton.canUse
       THEN /\ response' = BadRequest("useSwitch", canUseButton.reason)
            /\ emitted' = << >>
            /\ UNCHANGED channel
       ELSE /\ broadcastPositionUpdate(<< >>)
            /\ response' = [ cmd |-> "useSwitch", status |-> 200, success |-> TRUE,
                             bridgesActivated |-> bridgesActivated',
                             position |-> getPosition' ]

\* POST use-button
UseButton ==
    /\ pc = "idle"
    /\ request' = [cmd |-> "useSwitch"]
    /\ mm' = NoMM
    /\ pc' = "idle"
    /\ UNCHANGED <<agents, activeAgent, currentLevel, moveCheck, agentChannel, combat>>
    /\ IF ~canUseButton.canUse
       THEN /\ response' = BadRequest("useSwitch", canUseButton.reason)
            /\ emitted' = << >>
            /\ UNCHANGED channel
            /\ UNCHANGED bridgesActivated
       ELSE /\ bridgesActivated' = activateBridges
            /\ broadcastPositionUpdate(<< >>)
            /\ response' = [ cmd |-> "useSwitch", status |-> 200, success |-> TRUE,
                             bridgesActivated |-> bridgesActivated',
                             position |-> getPosition' ]

\* POST use-pc
UsePc ==
    /\ pc = "idle"
    /\ request' = [cmd |-> "useTerminal"]
    /\ mm' = NoMM
    /\ pc' = "idle"
    /\ emitted' = << >>
    /\ UNCHANGED channel
    /\ UNCHANGED <<agents, activeAgent, currentLevel, bridgesActivated, moveCheck, agentChannel, combat>>
    /\ IF ~canUseComputer.canUse
       THEN response' = BadRequest("useTerminal", canUseComputer.reason)
       ELSE response' = [ cmd |-> "useTerminal", status |-> 200, success |-> TRUE,
                          level_completed |-> TRUE,
                          position |-> getPosition,
                          victory |-> TRUE ]

\* Mutant: reset puts the active agent on its own starting position
Reset_OwnStart ==
    /\ pc = "idle"
    /\ request' = [cmd |-> "reset"]
    /\ mm' = NoMM
    /\ pc' = "idle"
    /\ UNCHANGED <<activeAgent, currentLevel, bridgesActivated, moveCheck, agentChannel, combat>>
    /\ agents' = setPosition(levelAgents(currentLevel)[activeAgent + 1], activeAgent)
    /\ broadcastPositionUpdate(<< >>)
    /\ response' = [ cmd |-> "reset", status |-> 200, success |-> TRUE,
                     position |-> Levels[currentLevel].starting_position,
                     currentLevel |-> currentLevel ]

\* Mutant: reset raises the bridges again
Reset_ResetsBridges ==
    /\ pc = "idle"
    /\ request' = [cmd |-> "reset"]
    /\ mm' = NoMM
    /\ pc' = "idle"
    /\ UNCHANGED <<activeAgent, currentLevel, moveCheck, agentChannel, combat>>
    /\ bridgesActivated' = resetBridges
    /\ agents' = setPosition(Levels[currentLevel].starting_position, activeAgent)
    /\ broadcastPositionUpdate(<< >>)
    /\ response' = [ cmd |-> "reset", status |-> 200, success |-> TRUE,
                     position |-> Levels[currentLevel].starting_position,
                     currentLevel |-> currentLevel ]

\* POST reset
Reset ==
    /\ pc = "idle"
    /\ request' = [cmd |-> "reset"]
    /\ mm' = NoMM
    /\ pc' = "idle"
    /\ UNCHANGED <<activeAgent, currentLevel, bridgesActivated, moveCheck, agentChannel, combat>>
    /\ agents' = setPosition(Levels[currentLevel].starting_position, activeAgent)
    /\ broadcastPositionUpdate(<< >>)
    /\ response' = [ cmd |-> "reset", status |-> 200, success |-> TRUE,
                     position |-> Levels[currentLevel].starting_position,
                     currentLevel |-> currentLevel ]

Init ==
    /\ agents = <<Levels[level1Data].starting_position>>
    /\ activeAgent = 0
    /\ currentLevel = level1Data
    /\ bridgesActivated = FALSE
    /\ pc = "idle"
    /\ mm = NoMM
    /\ emitted = << >>
    /\ clients = {}
    /\ streams = [h \in Handles |-> NoStream]
    /\ request = NoRequest
    /\ response = NoResponse
    /\ moveCheck = NoCheck
    /\ lastMessageId = 0
    /\ agentMessages = << >>
    /\ gameSettings = defaultSettings
    /\ gameState = setupState

Next ==
    \/ \E body \in MultiMoveBodies : MultiMove(body)
    \/ MultiMoveStep
    \/ MultiMoveReturn
    \/ \E body \in SetLevelBodies : SetLevel(body)
    \/ \E a \in (0 - InputMargin)..(getAgentCount - 1 + InputMargin), n \in BOOLEAN :
           SwitchAgent(a, n)
    \/ UseButton
    \/ UsePc
    \/ Reset

Spec == Init /\ [][Next]_vars

----------------------------------------------------------------------------
(* The event stream: GET character/events opens streams that the commands'  *)
(* broadcasts are sent on.  Handlers and stream events run on one event     *)
(* loop, so streams open, abort and break between commands, never inside    *)
(* the loop of a multi-move.                                                *)

\* Mutant: the stream is opened without the initial message
Subscribe_NoInitialMessage ==
    /\ pc = "idle"
    /\ \E h \in Handles :
          /\ streams[h].state = "unused"
          /\ \A g \in Handles : g < h => streams[g].state # "unused"
          /\ clients' = clients \cup {h}
          /\ streams' = [streams EXCEPT
                            ![h] = [state |-> "open", received |-> << >>]]
          /\ request' = [cmd |-> "subscribe", handle |-> h]
    /\ response' = [cmd |-> "subscribe", status |-> 200]
    /\ UNCHANGED <<agents, activeAgent, currentLevel, bridgesActivated, pc, mm,
                   emitted, moveCheck, agentChannel, combat>>

\* GET character/events: start(controller) adds the new controller to the
\* set and enqueues the initial message, built from the store as it is.  The
\* new controller is the first one not used yet.
Subscribe ==
    /\ pc = "idle"
    /\ \E h \in Handles :
          /\ streams[h].state = "unused"
          /\ \A g \in Handles : g < h => streams[g].state # "unused"
          /\ clients' = clients \cup {h}
          /\ streams' = [streams EXCEPT
                            ![h] = [state |-> "open", received |-> <<Snapshot>>]]
          /\ request' = [cmd |-> "subscribe", handle |-> h]
    /\ response' = [cmd |-> "subscribe", status |-> 200]
    /\ UNCHANGED <<agents, activeAgent, currentLevel, bridgesActivated, pc, mm,
                   emitted, moveCheck, agentChannel, combat>>

\* Mutant: the abort listener closes the controller and leaves it in the set
Abort_KeepsController(h) ==
    /\ pc = "idle"
    /\ streams[h].state \in {"open", "cancelled"}
    /\ clients' = clients
    /\ streams' = [streams EXCEPT ![h] = [state |-> "aborted", received |-> << >>]]
    /\ request' = [cmd |-> "abort", handle |-> h]
    /\ UNCHANGED <<agents, activeAgent, currentLevel, bridgesActivated, pc, mm,
                   emitted, response, moveCheck, agentChannel, combat>>

\* The abort listener of the request: the controller is deleted from the set
\* and closed; what the stream held is gone with its reader.  request
\* records the disconnect as the last input
Abort(h) ==
    /\ pc = "idle"
    /\ streams[h].state \in {"open", "cancelled"}
    /\ clients' = clients \ {h}
    /\ streams' = [streams EXCEPT ![h] = [state |-> "aborted", received |-> << >>]]
    /\ request' = [cmd |-> "abort", handle |-> h]
    /\ UNCHANGED <<agents, activeAgent, currentLevel, bridgesActivated, pc, mm,
                   emitted, response, moveCheck, agentChannel, combat>>

\* The reader of the stream cancels it while the controller is still in the
\* set: what the stream held is dropped and from now on enqueue on the
\* controller throws
Cancel(h) ==
    /\ pc = "idle"
    /\ streams[h].state = "open"
    /\ streams' = [streams EXCEPT ![h] = [state |-> "cancelled", received |-> << >>]]
    /\ UNCHANGED <<agents, activeAgent, currentLevel, bridgesActivated, pc, mm,
                   emitted, request, response, moveCheck, agentChannel, combat, clients>>

\* A new command is taken while every stream in the set was sent fewer than
\* MaxReceived messages
Listening == \A h \in clients : Len(streams[h].received) < MaxReceived

\* The multi-move requests sent while streams are watched
EventMoves ==
    { MultiMoveBody(d, n, TRUE, FALSE, 0) :
         d \in {"right"}, n \in {MinSteps, MinSteps + 1} }

NextEvents ==
    \/ Subscribe
    \/ \E h \in Handles : Abort(h)
    \/ \E h \in Handles : Cancel(h)
    \/ \E body \in EventMoves : Listening /\ MultiMove(body)
    \/ MultiMoveStep
    \/ MultiMoveReturn
    \/ \E body \in SetLevelBodies :
           /\ Listening
           /\ body.missing = "none"
           /\ Levels[body.levelData].has_starting_position_2
           /\ SetLevel(body)
    \/ \E a \in 0..(getAgentCount - 1) : Listening /\ SwitchAgent(a, TRUE)
    \/ Listening /\ UseButton
    \/ Listening /\ Reset

SpecEvents == Init /\ [][NextEvents]_vars

\* The event streams with use-pc among the commands.  A handler that has
\* started runs to its answer (the loop of multi-move goes on and returns);
\* nothing obliges a client to send a request or to disconnect.
NextObserved ==
    \/ NextEvents
    \/ Listening /\ UsePc

SpecObserved ==
    /\ Init
    /\ [][NextObserved]_vars
    /\ WF_vars(MultiMoveStep)
    /\ WF_vars(MultiMoveReturn)

----------------------------------------------------------------------------
(* The agent message channel: POST agent/events                            *)

\* The most payloads broadcast on the agent message channel
MaxAgentMessages == 4

\* Request bodies of POST agent/events: action "" stands for a body without
\* action, "remove" for an action the route does not know
AgentEventBodies ==
    { [action |-> a, text |-> t] :
        a \in {"", "add", "update_last", "remove"}, t \in {"thinking", "done"} }

\* The payload of an add or an update, the timestamp left out
AgentPayload(type, id, text) ==
    [type |-> type, id |-> id, message |-> [text |-> text, type |-> "info"]]

\* Mutant: update_last does not look at the counter
PostAgentEvent_UpdateUnchecked(body) ==
    /\ Len(agentMessages) < MaxAgentMessages
    /\ request' = [cmd |-> "agentEvent", body |-> body]
    /\ IF body.action = ""
       THEN /\ response' = BadRequest("agentEvent", "Missing action")
            /\ UNCHANGED agentChannel
       ELSE IF body.action = "add"
       THEN /\ lastMessageId' = lastMessageId + 1
            /\ agentMessages' = Append(agentMessages,
                   AgentPayload("agent_message_add", lastMessageId', body.text))
            /\ response' = [cmd |-> "agentEvent", status |-> 200, success |-> TRUE,
                            id |-> lastMessageId']
       ELSE IF body.action = "update_last"
       THEN /\ agentMessages' = Append(agentMessages,
                   AgentPayload("agent_message_update", lastMessageId, body.text))
            /\ response' = [cmd |-> "agentEvent", status |-> 200, success |-> TRUE,
                            id |-> lastMessageId]
            /\ UNCHANGED lastMessageId
       ELSE /\ response' = BadRequest("agentEvent", "Unsupported action")
            /\ UNCHANGED agentChannel
    /\ UNCHANGED <<agents, activeAgent, currentLevel, bridgesActivated, pc, mm,
                   emitted, clients, streams, moveCheck, combat>>

\* POST agent/events, from the parsed body to the answer; agentMessages
\* records what broadcast was given
PostAgentEvent(body) ==
    /\ Len(agentMessages) < MaxAgentMessages
    /\ request' = [cmd |-> "agentEvent", body |-> body]
    /\ IF body.action = ""
       THEN /\ response' = BadRequest("agentEvent", "Missing action")
            /\ UNCHANGED agentChannel
       ELSE IF body.action = "add"
       THEN /\ lastMessageId' = lastMessageId + 1
            /\ agentMessages' = Append(agentMessages,
                   AgentPayload("agent_message_add", lastMessageId', body.text))
            /\ response' = [cmd |-> "agentEvent", status |-> 200, success |-> TRUE,
                            id |-> lastMessageId']
       ELSE IF body.action = "update_last"
       THEN IF lastMessageId = 0
            THEN /\ response' = BadRequest("agentEvent", "No messages to update")
                 /\ UNCHANGED agentChannel
            ELSE /\ agentMessages' = Append(agentMessages,
                        AgentPayload("agent_message_update", lastMessageId, body.text))
                 /\ response' = [cmd |-> "agentEvent", status |-> 200,
                                 success |-> TRUE, id |-> lastMessageId]
                 /\ UNCHANGED lastMessageId
       ELSE /\ response' = BadRequest("agentEvent", "Unsupported action")
            /\ UNCHANGED agentChannel
    /\ UNCHANGED <<agents, activeAgent, currentLevel, bridgesActivated, pc, mm,
                   emitted, clients, streams, moveCheck, combat>>

NextAgentEvents == \E body \in AgentEventBodies : PostAgentEvent(body)

SpecAgentEvents == Init /\ [][NextAgentEvents]_vars

----------------------------------------------------------------------------
(* gameLogic.ts: the grid-combat prototype, its exported functions called   *)
(* directly.  request is the call and response its return value.            *)

\* The highest turn number the game is played to
MaxTurnNumber == 2

\* The field and the characters' fixed values
fieldWidth == 12
fieldHeight == 8
attack == 3
attackRange == 2
moveRange == 3
obstacleCount == 8

Teams == {"red", "blue"}

\* The character ids the calls are made with; "ghost" is no character's id
CharacterIds == {"red-player", "blue-player", "ghost"}

\* Obstacle sets initializeGame may draw (Math.random): obstacleCount
\* different cells, none a starting position.  The first puts an obstacle in
\* the red character's row, the second one in the blue character's row.
ObstacleLayouts ==
    { obstacles \in
        { { Pos(3, 3) } \cup { Pos(x, 0) : x \in 2..5 } \cup { Pos(x, 7) : x \in 2..4 },
          { Pos(8, 4) } \cup { Pos(x, 0) : x \in 2..5 } \cup { Pos(x, 7) : x \in 2..4 } } :
        Cardinality(obstacles) = obstacleCount }

\* The settings updateGameSettings is called with, one hit-point value
\* replaced: red's by a value below 0 (which the code does not refuse),
\* blue's by one that falls to a single attack
SettingsUpdates ==
    { [key |-> "redPlayerHP", value |-> v] : v \in (0 - InputMargin)..(0 - 1) }
        \cup { [key |-> "bluePlayerHP", value |-> attack] }

\* { ...gameSettings, ...settings }
mergeSettings(settings) ==
    [gameSettings EXCEPT ![settings.key] = settings.value]

\* initializeGame() under the settings, with the obstacles drawn
initializeGame(settings, obstacles) ==
    [ characters |->
          << [ id |-> "red-player", team |-> "red", position |-> Pos(0, 3),
               health |-> settings.redPlayerHP, maxHealth |-> settings.redPlayerHP ],
             [ id |-> "blue-player", team |-> "blue", position |-> Pos(11, 4),
               health |-> settings.bluePlayerHP, maxHealth |-> settings.bluePlayerHP ] >>,
      obstacles |-> obstacles,
      currentTurn |-> "red",
      gameStatus |-> "playing",
      winner |-> gameState.winner,
      turnNumber |-> 1 ]

\* characters.find(c => c.id === characterId): the index, 0 when none
findCharacter(characterId) ==
    IF \E k \in 1..Len(gameState.characters) : gameState.characters[k].id = characterId
    THEN CHOOSE k \in 1..Len(gameState.characters) :
             gameState.characters[k].id = characterId
    ELSE 0

\* characters.find(c => c.position is targetPosition): the first, 0 when none
findCharacterAt(position) ==
    IF \E k \in 1..Len(gameState.characters) : gameState.characters[k].position = position
    THEN CHOOSE k \in 1..Len(gameState.characters) :
             /\ gameState.characters[k].position = position
             /\ \A j \in 1..(k - 1) : gameState.characters[j].position # position
    ELSE 0

Abs(n) == IF n < 0 THEN 0 - n ELSE n

distance(p, q) == Abs(p.x - q.x) + Abs(p.y - q.y)

isValidPosition(position) ==
    /\ position.x >= 0 /\ position.x < fieldWidth
    /\ position.y >= 0 /\ position.y < fieldHeight

isPositionOccupied(position) ==
    \/ position \in gameState.obstacles
    \/ \E k \in 1..Len(gameState.characters) :
          gameState.characters[k].position = position

getNewPosition(position, direction) ==
    CASE direction = "up" -> Pos(position.x, position.y - 1)
      [] direction = "down" -> Pos(position.x, position.y + 1)
      [] direction = "left" -> Pos(position.x - 1, position.y)
      [] direction = "right" -> Pos(position.x + 1, position.y)
      [] OTHER -> position

Returns(method, value) == [cmd |-> method, value |-> value]

\* What the combat calls leave alone
UnchangedByCombat ==
    UNCHANGED <<agents, activeAgent, currentLevel, bridgesActivated, pc, mm,
                emitted, clients, streams, moveCheck, agentChannel>>

\* getGameState(): initializes the game when there are no characters yet
GetGameState ==
    /\ request' = [cmd |-> "getGameState"]
    /\ response' = [cmd |-> "getGameState"]
    /\ IF Len(gameState.characters) = 0
       THEN \E obstacles \in ObstacleLayouts :
                gameState' = initializeGame(gameSettings, obstacles)
       ELSE UNCHANGED gameState
    /\ UNCHANGED gameSettings
    /\ UnchangedByCombat

\* updateGameSettings(settings): initializes the game while it is in setup
UpdateGameSettings(settings) ==
    /\ request' = [cmd |-> "updateGameSettings", settings |-> settings]
    /\ response' = [cmd |-> "updateGameSettings"]
    /\ gameSettings' = mergeSettings(settings)
    /\ IF gameState.gameStatus = "setup"
       THEN \E obstacles \in ObstacleLayouts :
                gameState' = initializeGame(gameSettings', obstacles)
       ELSE UNCHANGED gameState
    /\ UnchangedByCombat

\* moveCharacter(characterId, direction), through moveCharacterToPosition
MoveCharacter(characterId, direction) ==
    /\ request' = [cmd |-> "moveCharacter"]
    /\ LET k == findCharacter(characterId)
       IN  IF k = 0
           THEN /\ response' = Returns("moveCharacter", FALSE)
                /\ UNCHANGED gameState
           ELSE LET character == gameState.characters[k]
                    newPosition == getNewPosition(character.position, direction)
                IN  IF \/ character.team # gameState.currentTurn
                       \/ distance(character.position, newPosition) > moveRange
                       \/ ~isValidPosition(newPosition)
                       \/ isPositionOccupied(newPosition)
                    THEN /\ response' = Returns("moveCharacter", FALSE)
                         /\ UNCHANGED gameState
                    ELSE /\ response' = Returns("moveCharacter", TRUE)
                         /\ gameState' = [gameState EXCEPT
                                !.characters[k].position = newPosition]
    /\ UNCHANGED gameSettings
    /\ UnchangedByCombat

\* attackTarget(attackerId, targetPosition)
AttackTarget(attackerId, targetPosition) ==
    /\ request' = [cmd |-> "attackTarget"]
    /\ LET a == findCharacter(attackerId)
           t == findCharacterAt(targetPosition)
       IN  IF a = 0
           THEN /\ response' = Returns("attackTarget", FALSE)
                /\ UNCHANGED gameState
           ELSE IF gameState.characters[a].team # gameState.currentTurn
           THEN /\ response' = Returns("attackTarget", FALSE)
                /\ UNCHANGED gameState
           ELSE IF \/ t = 0
                   \/ t = a
                   \/ gameState.characters[t].team = gameState.characters[a].team
           THEN /\ response' = Returns("attackTarget", FALSE)
                /\ UNCHANGED gameState
           ELSE IF distance(gameState.characters[a].position,
                            gameState.characters[t].position) > attackRange
           THEN /\ response' = Returns("attackTarget", FALSE)
                /\ UNCHANGED gameState
           ELSE LET health == IF gameState.characters[t].health - attack < 0
                              THEN 0
                              ELSE gameState.characters[t].health - attack
                IN  /\ response' = Returns("attackTarget", TRUE)
                    /\ gameState' =
                          IF health = 0
                          THEN [gameState EXCEPT
                                   !.characters[t].health = health,
                                   !.gameStatus = "finished",
                                   !.winner = gameState.characters[a].team]
                          ELSE [gameState EXCEPT !.characters[t].health = health]
    /\ UNCHANGED gameSettings
    /\ UnchangedByCombat

\* endTurn(team)
EndTurn(team) ==
    /\ gameState.turnNumber < MaxTurnNumber
    /\ request' = [cmd |-> "endTurn"]
    /\ IF gameState.currentTurn # team \/ gameState.gameStatus # "playing"
       THEN /\ response' = Returns("endTurn", FALSE)
            /\ UNCHANGED gameState
       ELSE /\ response' = Returns("endTurn", TRUE)
            /\ gameState' = [gameState EXCEPT
                   !.currentTurn = IF team = "red" THEN "blue" ELSE "red",
                   !.turnNumber = @ + 1]
    /\ UNCHANGED gameSettings
    /\ UnchangedByCombat

\* The cells an attack is aimed at: where a character stands, and a corner
AttackTargets ==
    { gameState.characters[k].position : k \in 1..Len(gameState.characters) }
        \cup { Pos(0, 0) }

NextCombat ==
    \/ GetGameState
    \/ \E settings \in SettingsUpdates : UpdateGameSettings(settings)
    \/ \E id \in CharacterIds, direction \in {"left", "right"} :
           MoveCharacter(id, direction)
    \/ \E id \in CharacterIds, target \in AttackTargets : AttackTarget(id, target)
    \/ \E team \in Teams : EndTurn(team)

SpecCombat == Init /\ [][NextCombat]_vars

----------------------------------------------------------------------------
(* The store driven directly through its methods, from the state in which   *)
(* it is constructed.  request is the call and response its return value.   *)

\* The longest roster the store is driven to
MaxRoster == 3

Void(method) == [cmd |-> method]

CallSetCurrentLevel(levelData) ==
    /\ currentLevel' = levelData
    /\ agents' = levelAgents(levelData)
    /\ activeAgent' = 0
    /\ bridgesActivated' = FALSE
    /\ request' = [cmd |-> "setCurrentLevel", levelData |-> levelData]
    /\ response' = Void("setCurrentLevel")
    /\ UNCHANGED <<pc, mm, emitted, clients, streams, moveCheck, agentChannel, combat>>

\* setPosition(newPosition, agentIndex); hasIndex = FALSE when the index is
\* left out and the active agent's slot is written.  The roster is let grow to
\* MaxRoster slots.
CallSetPosition(newPosition, hasIndex, agentIndex) ==
    LET index == IF hasIndex THEN agentIndex ELSE activeAgent
    IN  /\ Len(setPosition(newPosition, index)) <= MaxRoster
        /\ agents' = setPosition(newPosition, index)
        /\ request' = [cmd |-> "setPosition", newPosition |-> newPosition,
                       hasIndex |-> hasIndex, agentIndex |-> agentIndex]
        /\ response' = Void("setPosition")
        /\ UNCHANGED <<activeAgent, currentLevel, bridgesActivated, pc, mm, emitted, clients, streams,
                       moveCheck, agentChannel, combat>>

CallSetActiveAgent(index) ==
    /\ activeAgent' = setActiveAgent(index)
    /\ request' = [cmd |-> "setActiveAgent", index |-> index]
    /\ response' = Void("setActiveAgent")
    /\ UNCHANGED <<agents, currentLevel, bridgesActivated, pc, mm, emitted, clients, streams, moveCheck, agentChannel, combat>>

CallActivateBridges ==
    /\ bridgesActivated' = activateBridges
    /\ request' = [cmd |-> "activateBridges"]
    /\ response' = Void("activateBridges")
    /\ UNCHANGED <<agents, activeAgent, currentLevel, pc, mm, emitted, clients, streams, moveCheck, agentChannel, combat>>

CallResetBridges ==
    /\ bridgesActivated' = resetBridges
    /\ request' = [cmd |-> "resetBridges"]
    /\ response' = Void("resetBridges")
    /\ UNCHANGED <<agents, activeAgent, currentLevel, pc, mm, emitted, clients, streams, moveCheck, agentChannel, combat>>

CallGetEffectiveTileAt(x, y) ==
    /\ request' = [cmd |-> "getEffectiveTileAt", x |-> x, y |-> y]
    /\ response' = [cmd |-> "getEffectiveTileAt", value |-> getEffectiveTileAt(x, y)]
    /\ UNCHANGED <<agents, activeAgent, currentLevel, bridgesActivated, pc, mm,
                   emitted, clients, streams, moveCheck, agentChannel, combat>>

NextStore ==
    \/ \E levelData \in LevelIds : CallSetCurrentLevel(levelData)
    \/ \E index \in (0 - InputMargin)..(getAgentCount - 1 + InputMargin) :
           CallSetActiveAgent(index)
    \/ \E index \in (0 - InputMargin)..(getAgentCount - 1 + InputMargin) :
           CallSetPosition(Pos(0, 0), TRUE, index)
    \/ CallSetPosition(Levels[currentLevel].starting_position, FALSE, 0)
    \/ CallActivateBridges
    \/ CallResetBridges
    \/ \E p \in Coords(currentLevel) : CallGetEffectiveTileAt(p.x, p.y)

SpecStore == Init /\ [][NextStore]_vars

----------------------------------------------------------------------------
(* Claims about the validator, checked under SpecValidator                  *)

InBounds(p) ==
    /\ p.x >= 0 /\ p.x < Levels[currentLevel].size.width
    /\ p.y >= 0 /\ p.y < Levels[currentLevel].size.height

\* The raw symbol of the level file at (x, y); "." outside the grid
RawTile(x, y) ==
    IF InBounds(Pos(x, y)) THEN Levels[currentLevel].layout[y + 1][x + 1] ELSE "."

\* The symbol an agent meets at (x, y): a bridge Z shows as T once lowered
SeenTile(x, y) ==
    IF RawTile(x, y) = "Z" /\ bridgesActivated THEN "T" ELSE RawTile(x, y)

Solid(p) == SeenTile(p.x, p.y) \in {"#", "Z"}

Supported(p) == SeenTile(p.x, p.y + 1) \in {"#", "|", "T"}

OneStepHorizontal(from, to) ==
    to.y = from.y /\ (to.x = from.x + 1 \/ to.x = from.x - 1)

OneStepUp(from, to) == to.x = from.x /\ to.y = from.y - 1

OneStepDown(from, to) == to.x = from.x /\ to.y = from.y + 1

Rejected(reason) ==
    ~moveCheck.result.canMove /\ moveCheck.result.reason = reason

\* C8: a horizontal one-cell move is rejected whenever the effective tile
\* under the target is not a platform, a ladder or a lowered bridge (also when
\* that cell lies below the grid), and is allowed when it is one of the three
\* and the target itself is in bounds and not solid.
C8_HorizontalNeedsSupport ==
    (moveCheck.asked /\ OneStepHorizontal(moveCheck.from, moveCheck.to)) =>
        /\ ~Supported(moveCheck.to) => ~moveCheck.result.canMove
        /\ (Supported(moveCheck.to) /\ InBounds(moveCheck.to) /\ ~Solid(moveCheck.to))
               => moveCheck.result.canMove

\* C8 witness: a horizontal step onto the bottom row, whose supporting cell
\* lies below the grid, has been rejected for lack of a platform.
C8_Witness ==
    /\ moveCheck.asked
    /\ OneStepHorizontal(moveCheck.from, moveCheck.to)
    /\ InBounds(moveCheck.to) /\ ~Solid(moveCheck.to)
    /\ moveCheck.to.y + 1 = Levels[currentLevel].size.height
    /\ Rejected("No platform under target position")

\* C9 as stated: a one-cell move up is allowed only from a ladder cell and a
\* one-cell move down only with a ladder directly beneath; every other such
\* move is rejected with the reason 'Must be on ladder to move up', resp.
\* 'No ladder under current position to move down', the position unchanged.
C9_LadderReasonsAlways ==
    moveCheck.asked =>
        /\ moveCheck.from = getPosition
        /\ OneStepUp(moveCheck.from, moveCheck.to) =>
              IF SeenTile(moveCheck.from.x, moveCheck.from.y) = "|"
              THEN TRUE
              ELSE Rejected("Must be on ladder to move up")
        /\ OneStepDown(moveCheck.from, moveCheck.to) =>
              IF SeenTile(moveCheck.from.x, moveCheck.from.y + 1) = "|"
              THEN TRUE
              ELSE Rejected("No ladder under current position to move down")

\* C9 amended: a one-cell move up is allowed only from a ladder cell and a
\* one-cell move down only with a ladder directly beneath; every other such
\* move is rejected and the position unchanged, and the reason is the ladder
\* reason whenever the target is in bounds and not solid; a target out of
\* bounds or solid is rejected as such before the ladder is looked at.
C9_LadderGatesVertical ==
    moveCheck.asked =>
        /\ moveCheck.from = getPosition
        /\ (OneStepUp(moveCheck.from, moveCheck.to)
                /\ SeenTile(moveCheck.from.x, moveCheck.from.y) # "|") =>
              /\ ~moveCheck.result.canMove
              /\ (InBounds(moveCheck.to) /\ ~Solid(moveCheck.to))
                     => Rejected("Must be on ladder to move up")
              /\ ~InBounds(moveCheck.to) => Rejected("Out of bounds")
              /\ (InBounds(moveCheck.to) /\ Solid(moveCheck.to))
                     => Rejected("Cannot move through wall/raised bridge")
        /\ (OneStepDown(moveCheck.from, moveCheck.to)
                /\ SeenTile(moveCheck.from.x, moveCheck.from.y + 1) # "|") =>
              /\ ~moveCheck.result.canMove
              /\ (InBounds(moveCheck.to) /\ ~Solid(moveCheck.to))
                     => Rejected("No ladder under current position to move down")
              /\ ~InBounds(moveCheck.to) => Rejected("Out of bounds")
              /\ (InBounds(moveCheck.to) /\ Solid(moveCheck.to))
                     => Rejected("Cannot move through wall/raised bridge")

\* C9 witness: a move up from a cell that is no ladder to a free cell in
\* bounds has been rejected with the ladder reason.
C9_Witness ==
    /\ moveCheck.asked
    /\ OneStepUp(moveCheck.from, moveCheck.to)
    /\ InBounds(moveCheck.from)
    /\ SeenTile(moveCheck.from.x, moveCheck.from.y) # "|"
    /\ InBounds(moveCheck.to) /\ ~Solid(moveCheck.to)
    /\ Rejected("Must be on ladder to move up")
    /\ moveCheck.from = getPosition

\* C10 as stated: every target in bounds and not solid whose offset from the
\* current position is not one cell in one orthogonal direction (diagonal,
\* zero-length, several cells along a row or a column) is rejected with
\* 'Invalid movement direction'.
C10_OnlyUnitStepsAllowed ==
    (/\ moveCheck.asked
     /\ InBounds(moveCheck.to) /\ ~Solid(moveCheck.to)
     /\ ~OneStepHorizontal(moveCheck.from, moveCheck.to)
     /\ ~OneStepUp(moveCheck.from, moveCheck.to)
     /\ ~OneStepDown(moveCheck.from, moveCheck.to))
        => Rejected("Invalid movement direction")

\* The reasons of the rules that depend on the direction of the move
DirectionReasons ==
    {"No platform under target position", "Must be on ladder to move up",
     "No ladder under current position to move down", "Invalid movement direction"}

\* The rule of its direction refuses the move from `from` to `to`
DirectionRuleViolated(from, to) ==
    IF from.y = to.y
    THEN ~Supported(to)
    ELSE IF from.x = to.x /\ to.y < from.y
    THEN SeenTile(from.x, from.y) # "|"
    ELSE IF from.x = to.x /\ to.y > from.y
    THEN SeenTile(from.x, from.y + 1) # "|"
    ELSE TRUE

\* C11: the rules are tried in a fixed order.  A target outside
\* [0,width) x [0,height) is rejected with 'Out of bounds' whatever the
\* direction; otherwise a target whose effective tile is '#' or a raised 'Z'
\* is rejected with 'Cannot move through wall/raised bridge' before any rule
\* of the direction; only a target in bounds and not solid is judged by the
\* rule of its direction, so the reason given is that of the first rule
\* violated.
C11_FirstViolatedRuleReported ==
    moveCheck.asked =>
        /\ ~InBounds(moveCheck.to) => Rejected("Out of bounds")
        /\ (InBounds(moveCheck.to) /\ Solid(moveCheck.to))
               => Rejected("Cannot move through wall/raised bridge")
        /\ (InBounds(moveCheck.to) /\ ~Solid(moveCheck.to)) =>
               IF DirectionRuleViolated(moveCheck.from, moveCheck.to)
               THEN ~moveCheck.result.canMove
                    /\ moveCheck.result.reason \in DirectionReasons
               ELSE moveCheck.result.canMove

\* C11 witness: a target that is a wall and that the rule of its direction
\* would refuse as well (a move up from a cell that is no ladder) has been
\* rejected as a wall.
C11_Witness ==
    /\ moveCheck.asked
    /\ InBounds(moveCheck.to) /\ Solid(moveCheck.to)
    /\ OneStepUp(moveCheck.from, moveCheck.to)
    /\ DirectionRuleViolated(moveCheck.from, moveCheck.to)
    /\ Rejected("Cannot move through wall/raised bridge")

\* The answer of getAvailableActions() holds the action
Answered(action) ==
    \E k \in 1..Len(response.value) : response.value[k] = action

\* C30: the available actions of a position (x, y) include multi_move[left]
\* exactly when the tile at (x-1, y+1) is a platform, multi_move[right] when
\* the tile at (x+1, y+1) is one, multi_move[up] when the tile at (x, y) is a
\* ladder and multi_move[down] when the tile at (x, y+1) is one, a cell
\* outside the grid counting as empty.
C30_MoveActionsFollowTiles ==
    request.cmd = "getAvailableActions" =>
        LET x == agents[activeAgent + 1].x
            y == agents[activeAgent + 1].y
        IN  /\ Answered("multi_move[left]") <=> RawTile(x - 1, y + 1) = "#"
            /\ Answered("multi_move[right]") <=> RawTile(x + 1, y + 1) = "#"
            /\ Answered("multi_move[up]") <=> RawTile(x, y) = "|"
            /\ Answered("multi_move[down]") <=> RawTile(x, y + 1) = "|"

\* C30 witness: at the left edge, where the cell below-left lies outside the
\* grid, a move to the right is offered and a move to the left is not.
C30_Witness ==
    /\ request.cmd = "getAvailableActions"
    /\ agents[activeAgent + 1].x = 0
    /\ Answered("multi_move[right]")
    /\ ~Answered("multi_move[left]")

\* The cell one step from the active agent in the direction
StepTarget(d) ==
    Pos(agents[activeAgent + 1].x + directionMap[d].x,
        agents[activeAgent + 1].y + directionMap[d].y)

\* The action getAvailableActions offers for a move in the direction
MoveAction(d) ==
    CASE d = "left" -> "multi_move[left]"
      [] d = "right" -> "multi_move[right]"
      [] d = "up" -> "multi_move[up]"
      [] d = "down" -> "multi_move[down]"

\* C31: getAvailableActions does not drift from canMoveToPosition: for every
\* level, bridge flag and position of the active agent, multi_move[d] is
\* among the available actions exactly when canMoveToPosition allows the
\* step of one cell from that position in direction d.
C31_ActionsAgreeWithValidator ==
    request.cmd = "getAvailableActions" =>
        \A d \in Directions :
            Answered(MoveAction(d)) <=> canMoveToPosition(StepTarget(d)).canMove

----------------------------------------------------------------------------
(* Claims about the store's methods, checked under SpecStore                *)

\* The step is a call of the store's method
Calls(method) == request'.cmd = method

\* The cells of the current level whose raw symbol is a bridge
BridgeCells == { p \in Cells(currentLevel) : RawTile(p.x, p.y) = "Z" }

\* C23 as stated: the roster is resized by setCurrentLevel only: every other
\* operation of the store, setPosition(pos, agentIndex) with any agentIndex
\* and setActiveAgent included, leaves agentCount as it was.
C23_OnlySetCurrentLevelResizes ==
    [][getAgentCount' # getAgentCount => Calls("setCurrentLevel")]_vars

\* C12: getEffectiveTileAt(x, y) answers every coordinate outside the grid
\* with the empty symbol (and never fails); inside the grid it answers 'T'
\* exactly when the raw symbol is 'Z' and the bridge flag is set, and the raw
\* symbol in every other case, whatever the flag.
C12_EffectiveTile ==
    request.cmd = "getEffectiveTileAt" =>
        LET raw == RawTile(request.x, request.y)
        IN  IF ~InBounds(Pos(request.x, request.y))
            THEN response.value = EmptyTile
            ELSE /\ response.value = "T" <=> (raw = "Z" /\ bridgesActivated)
                 /\ response.value # "T" => response.value = raw

\* C12 witness: a bridge cell has been read with the flag clear and
\* answered with its raw symbol 'Z'.
C12_Witness ==
    /\ request.cmd = "getEffectiveTileAt"
    /\ InBounds(Pos(request.x, request.y))
    /\ RawTile(request.x, request.y) = "Z"
    /\ ~bridgesActivated
    /\ response.value = "Z"

\* C13: activateBridges() sets the flag and changes nothing else, a call
\* made with the flag already set changes nothing at all (twice is the same
\* as once), and after a call every bridge cell reads as 'T'.
C13_ActivateBridgesIdempotent ==
    [][Calls("activateBridges") =>
          /\ bridgesActivated'
          /\ UNCHANGED <<agents, activeAgent, currentLevel>>
          /\ bridgesActivated => store' = store
          /\ \A p \in BridgeCells' : getEffectiveTileAt(p.x, p.y)' = "T"]_vars

\* C13 witness: activateBridges() has been called in a level with bridge
\* cells and the flag is set.
C13_Witness ==
    /\ request.cmd = "activateBridges"
    /\ bridgesActivated
    /\ BridgeCells # {}

----------------------------------------------------------------------------
(* Claims about multi-move and the other commands, checked under Spec       *)

\* A multi-move with a known direction is in its loop, about to answer, or
\* was the last command and answered with its outcomes
MMLive ==
    \/ pc \in {"loop", "return"} /\ mm.direction \in {"left", "right", "up", "down"}
    \/ pc = "idle" /\ response.cmd = "multiMove" /\ response.status = 200

MMDone == pc = "idle" /\ response.cmd = "multiMove" /\ response.status = 200

Outcomes == mm.stepResults

SuccessCount == Cardinality({ j \in 1..Len(Outcomes) : Outcomes[j].result })

Failed(j) == ~Outcomes[j].result

UnitVector(d) ==
    CASE d = "left" -> Pos(-1, 0)
      [] d = "right" -> Pos(1, 0)
      [] d = "up" -> Pos(0, -1)
      [] d = "down" -> Pos(0, 1)

\* The moved agent's position once k steps of the command are committed
After(k) ==
    Pos(mm.startPos.x + k * UnitVector(mm.direction).x,
        mm.startPos.y + k * UnitVector(mm.direction).y)

MovedAgent == agents[mm.agentIndex + 1]

\* C1: the outcomes of a multi-move are successes followed by at most one
\* failure, which is the last outcome; there are at most `steps` of them; and
\* once a step has failed the loop is over, with no broadcast and no commit
\* after it.
C1_OutcomesEndAtFirstFailure ==
    MMLive =>
        /\ Len(Outcomes) <= mm.steps
        /\ \A j \in 1..Len(Outcomes) : Failed(j) => j = Len(Outcomes)
        /\ (Len(Outcomes) > 0 /\ Failed(Len(Outcomes))) =>
              /\ pc # "loop"
              /\ Len(emitted) = Len(Outcomes) - 1
              /\ MovedAgent = Outcomes[Len(Outcomes)].position
        /\ MMDone => response.steps = Outcomes

\* C1 witness: a batch of 5 steps has run into a wall after 2 legal steps and
\* answered with 3 outcomes.
C1_Witness ==
    /\ MMDone
    /\ mm.steps = 5
    /\ Len(response.steps) = 3
    /\ response.steps[1].result /\ response.steps[2].result
    /\ ~response.steps[3].result
    /\ response.steps[3].reason = "Cannot move through wall/raised bridge"

\* C2: the position stored for the moved agent is its position before the
\* command displaced by as many unit vectors as there are success outcomes,
\* during the batch and after it; a failure outcome carries that position;
\* the answer's final_position is that position.
C2_FinalPositionIsLastCommit ==
    MMLive =>
        /\ MovedAgent = After(SuccessCount)
        /\ \A j \in 1..Len(Outcomes) :
              Failed(j) => Outcomes[j].position = After(SuccessCount)
        /\ MMDone => /\ response.final_position = MovedAgent
                     /\ response.final_position = After(SuccessCount)

\* C2 witness: a batch for an agent that is not the active one has answered
\* with committed steps followed by a failure.
C2_Witness ==
    /\ MMDone
    /\ mm.agentIndex # activeAgent
    /\ SuccessCount >= 1
    /\ Failed(Len(Outcomes))
    /\ MovedAgent # mm.startPos

\* C3 as stated: each step of a multi-move for agent i is committed exactly
\* when the validator allows the move from agent i's own position to the next
\* cell in the direction, whoever the active agent is.
C3_StepJudgedFromOwnPosition ==
    MMLive =>
        \A j \in 1..Len(Outcomes) :
            Outcomes[j].result = canMoveFrom(After(j - 1), After(j)).canMove

\* C4: a multi-move broadcasts once per committed step and never for a failed
\* one: at every point of the batch there are as many snapshots as success
\* outcomes, and the j-th snapshot shows the moved agent where the j-th
\* outcome put it.
C4_OneBroadcastPerCommit ==
    MMLive =>
        /\ Len(emitted) = SuccessCount
        /\ \A j \in 1..Len(emitted) :
              /\ Outcomes[j].result
              /\ emitted[j].agents[mm.agentIndex + 1] = Outcomes[j].position

\* C4 witness: a batch has answered after two commits and a failure, with
\* two snapshots showing the two positions.
C4_Witness ==
    /\ MMDone
    /\ Len(Outcomes) = 3 /\ Failed(3)
    /\ Len(emitted) = 2
    /\ emitted[1].agents[mm.agentIndex + 1] = After(1)
    /\ emitted[2].agents[mm.agentIndex + 1] = After(2)

RejectedAnswer(r) == r.status >= 400 /\ ~r.success

\* The step is a command of this kind being taken up
Takes(cmd) == pc = "idle" /\ request'.cmd = cmd

BadMultiMove(b) ==
    \/ ~b.stepsIsNumber
    \/ b.steps < 1
    \/ b.steps > 10
    \/ b.direction \notin {"up", "down", "left", "right"}
    \/ b.hasAgentIndex /\ (b.agentIndex < 0 \/ b.agentIndex >= Len(agents))

UnknownDirection ==
    pc = "loop" /\ mm.direction \notin {"up", "down", "left", "right"}

\* C5: a multi-move request with steps outside 1..10, with a direction that
\* is none of up, down, left, right, or with an agentIndex outside the roster
\* is answered with an error, and the store is left as it was and nothing is
\* broadcast.  (An unknown direction string is answered on entering the
\* loop.)
C5_InvalidMultiMoveIsNoOp ==
    /\ [](UnknownDirection => emitted = << >> /\ Len(mm.stepResults) = 0)
    /\ [][ /\ (Takes("multiMove") /\ BadMultiMove(request'.body)) =>
                    /\ store' = store
                    /\ emitted' = << >>
                    /\ \/ pc' = "idle" /\ RejectedAnswer(response')
                       \/ UnknownDirection'
           /\ UnknownDirection =>
                    /\ store' = store
                    /\ emitted' = << >>
                    /\ pc' = "idle" /\ RejectedAnswer(response')
         ]_vars

\* C5 witness: in a two-agent level a multi-move has been refused for its
\* agent index.
C5_Witness ==
    /\ pc = "idle"
    /\ response.cmd = "multiMove"
    /\ response.status = 400
    /\ response.error = "Invalid agent index"
    /\ Len(agents) = 2
    /\ emitted = << >>

\* Whether symbol lies on the active agent's cell or a cell next to it
Near(symbol) ==
    LET p == agents[activeAgent + 1]
    IN  \/ RawTile(p.x, p.y) = symbol
        \/ RawTile(p.x - 1, p.y) = symbol
        \/ RawTile(p.x + 1, p.y) = symbol
        \/ RawTile(p.x, p.y - 1) = symbol
        \/ RawTile(p.x, p.y + 1) = symbol

NothingDone == store' = store /\ emitted' = << >>

\* C6: a rejected command changes nothing and broadcasts nothing: a
\* multi-move whose first step is illegal, a use-switch with no switch
\* nearby, a use-terminal with no terminal nearby, a switch-agent with an
\* index out of range, a set-level with invalid level data.
C6_RejectedCommandsAreNoOps ==
    [][ /\ (pc = "loop" /\ mm.i = 0 /\ pc' = "return" /\ ~mm'.stepResults[1].result) =>
              NothingDone /\ emitted = << >>
        /\ (pc = "return" /\ ~mm.stepResults[1].result) =>
              NothingDone /\ ~response'.level_completed
        /\ (Takes("useSwitch") /\ ~Near("B")) =>
              NothingDone /\ RejectedAnswer(response')
        /\ (Takes("useTerminal") /\ ~Near("C")) =>
              NothingDone /\ RejectedAnswer(response')
        /\ (/\ Takes("switchAgent")
            /\ \/ request'.agentIndex < 0
               \/ request'.agentIndex >= Len(agents)) =>
              NothingDone /\ RejectedAnswer(response')
        /\ (Takes("setLevel") /\ request'.body.missing # "none") =>
              NothingDone /\ RejectedAnswer(response')
      ]_vars

\* C6 witness: with the bridges lowered in the two-agent level, a use-switch
\* has been refused for want of a switch nearby.
C6_Witness ==
    /\ pc = "idle"
    /\ response.cmd = "useSwitch"
    /\ response.status = 400
    /\ ~Near("B")
    /\ bridgesActivated
    /\ emitted = << >>

OnTerminal(p) == SeenTile(p.x, p.y) = "C"

\* C7: a committed step that enters the terminal cell is the last outcome of
\* its batch: the loop is over, nothing is committed or broadcast after it,
\* and the answer reports level_completed with final_position on the
\* terminal.
C7_TerminalEndsBatch ==
    MMLive =>
        \A j \in 1..Len(Outcomes) :
            (Outcomes[j].result /\ OnTerminal(Outcomes[j].position)) =>
                /\ j = Len(Outcomes)
                /\ pc # "loop"
                /\ Len(emitted) = j
                /\ MovedAgent = Outcomes[j].position
                /\ Outcomes[j].level_completed
                /\ MMDone => /\ response.level_completed
                             /\ response.final_position = Outcomes[j].position

\* C7 witness: a batch walking right has stopped on the terminal with steps
\* left over, although the cell beyond is free and supported.
C7_Witness ==
    /\ MMDone
    /\ mm.direction = "right"
    /\ response.level_completed
    /\ OnTerminal(response.final_position)
    /\ Len(Outcomes) < mm.steps
    /\ InBounds(After(Len(Outcomes) + 1))
    /\ ~Solid(After(Len(Outcomes) + 1))
    /\ Supported(After(Len(Outcomes) + 1))

\* C14: over multi-move, switch-agent, use-switch, use-terminal and reset the
\* bridge flag never goes from set to clear; it is cleared only by a set-level
\* that is applied, and every applied set-level leaves it clear.
C14_BridgeFlagMonotonic ==
    [][ /\ (bridgesActivated /\ ~bridgesActivated') =>
              (Takes("setLevel") /\ response'.status = 200)
        /\ (Takes("setLevel") /\ response'.status = 200) => ~bridgesActivated'
      ]_vars

\* C14 witness: a reset has been answered with the bridges lowered, and they
\* are still lowered.
C14_Witness ==
    /\ pc = "idle"
    /\ request.cmd = "reset"
    /\ response.status = 200
    /\ bridgesActivated

\* getAvailableActions() offers the action
Offered(action) ==
    \E k \in 1..Len(getAvailableActions) : getAvailableActions[k] = action

\* C15: use-switch succeeds exactly when the actions available to the active
\* agent include use_button, that is when its cell or one of its four
\* neighbours holds 'B'; then the flag is set afterwards and exactly one
\* snapshot is broadcast; otherwise it fails with 'No button nearby'.
C15_UseSwitchNeedsButtonNearby ==
    [][Takes("useSwitch") =>
          /\ Offered("use_button") <=> Near("B")
          /\ IF Offered("use_button")
             THEN /\ response'.status = 200 /\ response'.success
                  /\ bridgesActivated'
                  /\ Len(emitted') = 1
                  /\ emitted'[1].bridgesActivated
             ELSE /\ RejectedAnswer(response')
                  /\ response'.error = "No button nearby"
                  /\ emitted' = << >>
      ]_vars

\* C15 witness: a use-switch has succeeded for an agent that stands beside
\* the button, not on it, and one snapshot went out.
C15_Witness ==
    /\ pc = "idle"
    /\ request.cmd = "useSwitch"
    /\ response.status = 200
    /\ Near("B")
    /\ RawTile(agents[activeAgent + 1].x, agents[activeAgent + 1].y) # "B"
    /\ bridgesActivated
    /\ Len(emitted) = 1

\* C16: the bridges are lowered for everybody.  With the flag set every
\* bridge cell reads as 'T', whoever the active agent is; and a horizontal
\* step of a multi-move onto a bridge cell is refused as a wall while the flag
\* is clear and, for the active agent, committed once the flag is set and the
\* cell has ground under it, also for an agent that became the active one
\* after the switch was used.
C16_BridgesLoweredForEveryAgent ==
    /\ bridgesActivated =>
          \A p \in BridgeCells : getEffectiveTileAt(p.x, p.y) = "T"
    /\ (MMLive /\ mm.direction \in {"left", "right"}) =>
          \A j \in 1..Len(Outcomes) :
              After(j) \in BridgeCells =>
                  IF bridgesActivated
                  THEN (mm.agentIndex = activeAgent /\ Supported(After(j)))
                           => Outcomes[j].result
                  ELSE /\ Failed(j)
                       /\ Outcomes[j].reason = "Cannot move through wall/raised bridge"

\* C16 witness: with the bridges lowered, the second agent, now the active
\* one, has stepped sideways onto a bridge cell.
C16_Witness ==
    /\ MMDone
    /\ activeAgent = 1
    /\ mm.agentIndex = 1
    /\ mm.direction \in {"left", "right"}
    /\ bridgesActivated
    /\ Len(Outcomes) >= 1
    /\ Outcomes[Len(Outcomes)].result
    /\ MovedAgent \in BridgeCells

\* C17: use-terminal succeeds exactly when the active agent's cell or one of
\* its four neighbours holds 'C'; succeeding or failing, it leaves the roster,
\* the active index, the bridge flag and the level as they were and broadcasts
\* nothing; its answer is determined by that unchanged state, so the same call
\* repeated gets the same answer.
C17_UseTerminalReadsOnly ==
    [][Takes("useTerminal") =>
          /\ store' = store
          /\ emitted' = << >>
          /\ IF Near("C")
             THEN response' = [ cmd |-> "useTerminal", status |-> 200,
                                success |-> TRUE, level_completed |-> TRUE,
                                position |-> agents[activeAgent + 1],
                                victory |-> TRUE ]
             ELSE response' = BadRequest("useTerminal", "No computer nearby")
      ]_vars

\* C17 witness: a use-terminal has succeeded for an agent that stands beside
\* the terminal, not on it.
C17_Witness ==
    /\ pc = "idle"
    /\ request.cmd = "useTerminal"
    /\ response.status = 200
    /\ Near("C")
    /\ ~OnTerminal(agents[activeAgent + 1])

\* The starting position of the level set last
startingPosition == Levels[currentLevel].starting_position

C19_ResetRestoresAllAgents ==
    (pc = "idle" /\ request.cmd = "reset" /\ response.status = 200) =>
        agents = levelAgents(currentLevel)

\* C20: in every state the active agent index is an index of the roster,
\* 0 <= activeAgent < agentCount, also once a set-level has replaced a
\* two-agent level by a one-agent level while the second agent was active.
C20_ActiveAgentInRange ==
    /\ activeAgent >= 0
    /\ activeAgent < getAgentCount

\* C20 witness: a set-level has been applied that leaves a single agent,
\* and the active index is that agent's.
C20_Witness ==
    /\ pc = "idle"
    /\ request.cmd = "setLevel"
    /\ response.status = 200
    /\ getAgentCount = 1
    /\ activeAgent = 0
    /\ currentLevel # level1Data

\* C21: a switch-agent with an index of the roster makes that agent the
\* active one and broadcasts one snapshot; with an index that is negative or
\* >= agentCount (agentCount itself included) the active agent stays, nothing
\* is thrown (the answer is a 400, not the 500 of the catch), and nothing is
\* broadcast.
C21_SwitchAgentInRangeOnly ==
    [][Takes("switchAgent") =>
          IF /\ request'.isNumber
             /\ request'.agentIndex >= 0
             /\ request'.agentIndex < Len(agents)
          THEN /\ activeAgent' = request'.agentIndex
               /\ response'.status = 200 /\ response'.success
               /\ Len(emitted') = 1
               /\ emitted'[1].activeAgent = request'.agentIndex
               /\ UNCHANGED <<agents, currentLevel, bridgesActivated>>
          ELSE /\ store' = store
               /\ emitted' = << >>
               /\ response'.status = 400 /\ ~response'.success
      ]_vars

\* C21 witness: a switch-agent to the index one past the end of a two-agent
\* roster has been refused while the second agent is the active one.
C21_Witness ==
    /\ pc = "idle"
    /\ request.cmd = "switchAgent"
    /\ request.isNumber
    /\ request.agentIndex = Len(agents)
    /\ Len(agents) = 2
    /\ activeAgent = 1
    /\ response.status = 400
    /\ emitted = << >>

\* C22: an applied set-level, from whatever state, leaves the roster exactly
\* [starting_position] or [starting_position, starting_position_2] according
\* to whether the level has a second start, the active index 0, the bridge
\* flag clear and the level the one supplied, and answers with the new
\* starting position; a set-level with complete level data is applied.
C22_SetLevelReplacesEverything ==
    [][Takes("setLevel") =>
          LET supplied == Levels[request'.body.levelData]
          IN  /\ request'.body.missing = "none" => response'.status = 200
              /\ response'.status = 200 =>
                    /\ agents' = IF supplied.has_starting_position_2
                                 THEN <<supplied.starting_position,
                                        supplied.starting_position_2>>
                                 ELSE <<supplied.starting_position>>
                    /\ activeAgent' = 0
                    /\ ~bridgesActivated'
                    /\ currentLevel' = request'.body.levelData
                    /\ response'.startingPosition = supplied.starting_position
                    /\ response'.currentPosition = supplied.starting_position
      ]_vars

\* C22 witness: a set-level to the two-agent level has been applied and both
\* agents stand on their starts.
C22_Witness ==
    /\ pc = "idle"
    /\ request.cmd = "setLevel"
    /\ response.status = 200
    /\ Levels[currentLevel].has_starting_position_2
    /\ agents = <<Levels[currentLevel].starting_position,
                  Levels[currentLevel].starting_position_2>>

\* C27 as stated: the map of a snapshot holds the effective layout rows: with
\* the bridge flag set, every cell whose raw symbol is 'Z' shows as 'T' in the
\* map of every snapshot broadcast.
C27_SnapshotMapIsEffective ==
    \A k \in 1..Len(emitted) :
        emitted[k].bridgesActivated =>
            \A p \in BridgeCells : emitted[k].map[p.y + 1][p.x + 1] = "T"

----------------------------------------------------------------------------
(* Claims about the event stream, checked under SpecEvents                  *)

\* A stream is opened, aborted or cancelled in this step
TransportStep == \E h \in Handles : streams'[h].state # streams[h].state

\* The snapshots broadcast in this step, in the order they were sent
NewlyEmitted ==
    IF TransportStep THEN << >>
    ELSE IF pc = "idle" THEN emitted'
    ELSE SubSeq(emitted', Len(emitted) + 1, Len(emitted'))

Open(h) == streams[h].state = "open"

\* C24: the first message a subscriber gets is a full snapshot of the store
\* as it is when it subscribes, it gets nothing before that, and while its
\* stream stays open it gets every snapshot broadcast, in the order sent.
C24_SubscriberSeesEverything ==
    [][\A h \in Handles :
          /\ streams[h].state = "unused" => streams[h].received = << >>
          /\ (streams[h].state = "unused" /\ Open(h)') =>
                /\ store' = store
                /\ streams'[h].received = <<Snapshot>>
                /\ h \in clients'
          /\ (Open(h) /\ Open(h)') =>
                streams'[h].received = streams[h].received \o NewlyEmitted
      ]_vars

\* C24 witness: an open stream holds its initial snapshot followed by the
\* two snapshots of a two-step multi-move, all three different.
C24_Witness ==
    \E h \in Handles :
        /\ Open(h)
        /\ Len(streams[h].received) = 3
        /\ Len(emitted) = 2
        /\ streams[h].received[2] = emitted[1]
        /\ streams[h].received[3] = emitted[2]
        /\ streams[h].received[1] # emitted[1]
        /\ emitted[1] # emitted[2]

\* C25: when the send to one controller fails during a broadcast, that
\* controller and no other is removed from the set, every open stream still
\* gets the snapshot, and the command that broadcast goes on and answers as
\* if nothing had failed.
C25_SendFailureIsIsolated ==
    [][NewlyEmitted # << >> =>
          /\ clients' = { h \in clients : Open(h) }
          /\ \A h \in clients :
                Open(h) => /\ Open(h)'
                           /\ streams'[h].received =
                                  streams[h].received \o NewlyEmitted
          /\ \A h \in Handles : ~Open(h) => streams'[h] = streams[h]
          /\ pc' = "idle" => (response'.status = 200 /\ response'.success)
          /\ pc' # "idle" => mm'.stepResults[Len(mm'.stepResults)].result
      ]_vars

\* C25 witness: a cancelled stream has been removed from the set by a
\* broadcast that an open stream received.
C25_Witness ==
    \E h, g \in Handles :
        /\ streams[h].state = "cancelled"
        /\ h \notin clients
        /\ Open(g) /\ g \in clients
        /\ Len(streams[g].received) >= 2
        /\ Len(emitted) = 1
        /\ streams[g].received[Len(streams[g].received)] = emitted[1]

\* Every message of the sequence agrees with itself
Coherent(messages) ==
    \A k \in 1..Len(messages) :
        /\ messages[k].agentCount = Len(messages[k].agents)
        /\ messages[k].activeAgent >= 0
        /\ messages[k].activeAgent < messages[k].agentCount
        /\ messages[k].position = messages[k].agents[messages[k].activeAgent + 1]

\* The message shows the store as it is after this step
Fresh(message) ==
    /\ message.agents = agents'
    /\ message.agentCount = Len(agents')
    /\ message.activeAgent = activeAgent'
    /\ message.position = agents'[activeAgent' + 1]
    /\ message.bridgesActivated = bridgesActivated'

\* C26: every snapshot sent, the initial one of a stream and every broadcast,
\* is built from the store at the moment it is sent and agrees with itself:
\* agents is the roster, agentCount its length, activeAgent the active index,
\* position is agents[activeAgent] and bridgesActivated the flag; none shows
\* a value the store no longer has.
C26_SnapshotsAreFresh ==
    /\ [](/\ Coherent(emitted)
          /\ \A h \in Handles : Coherent(streams[h].received))
    /\ [][ /\ \A k \in 1..Len(NewlyEmitted) :
                  /\ Fresh(NewlyEmitted[k])
                  /\ Len(NewlyEmitted) = 1
           /\ \A h \in Handles :
                  (streams[h].state = "unused" /\ Open(h)') =>
                      Fresh(streams'[h].received[1])
         ]_vars

\* C26 witness: an open stream holds a broadcast snapshot in which the
\* second agent is the active one and the bridges are lowered.
C26_Witness ==
    \E h \in Handles :
        /\ Open(h)
        /\ Len(streams[h].received) >= 2
        /\ LET last == streams[h].received[Len(streams[h].received)]
           IN  /\ last.activeAgent = 1
               /\ last.bridgesActivated
               /\ last.position = agents[2]
               /\ last.position # agents[1]

\* The last n elements of a sequence
LastOf(seq, n) == SubSeq(seq, Len(seq) - n + 1, Len(seq))

\* The broadcasts a stream was sent after its initial snapshot
Broadcasts(h) == Tail(streams[h].received)

\* C29: all observers see one stream.  Two streams that are open were sent
\* the same snapshots in the same order over the stretch both were open for,
\* the later one's broadcasts being the end of the earlier one's; and the
\* order is that of the commits: the last message of an open stream shows the
\* store as it is.
C29_OneOrderedStream ==
    \A h, g \in Handles :
        (Open(h) /\ Open(g)) =>
            /\ h \in clients
            /\ streams[h].received[Len(streams[h].received)] = Snapshot
            /\ Len(Broadcasts(g)) <= Len(Broadcasts(h)) =>
                  LastOf(Broadcasts(h), Len(Broadcasts(g))) = Broadcasts(g)

\* C29 witness: two open streams, the second opened after a broadcast the
\* first was sent, have both been sent the two snapshots of a later
\* multi-move.
C29_Witness ==
    \E h, g \in Handles :
        /\ Open(h) /\ Open(g)
        /\ Len(Broadcasts(h)) = 3
        /\ Len(Broadcasts(g)) = 2
        /\ Broadcasts(g)[1] # Broadcasts(g)[2]
        /\ streams[h].received[1] # streams[g].received[1]
        /\ Broadcasts(h)[1] = streams[g].received[1]

----------------------------------------------------------------------------
(* Claims about multi-move and its target agent, checked under Spec        *)

\* A multi-move whose body gave no agentIndex is in its loop
NoIndexGiven == pc = "loop" /\ ~request.body.hasAgentIndex

\* C32: a multi-move that gives no agentIndex moves the active agent: every
\* position it commits is written to the active agent and every other
\* agent's position is unchanged (with agent 1 active in a two-agent level,
\* agent 1 moves and agent 0 stays).
C32_NoIndexMovesActiveAgent ==
    [][(NoIndexGiven /\ agents' # agents) =>
          /\ agents'[activeAgent + 1] # agents[activeAgent + 1]
          /\ \A k \in 1..Len(agents) :
                k # activeAgent + 1 => agents'[k] = agents[k]
      ]_vars

\* C33: in the answer of a multi-move, a success outcome has level_completed
\* set exactly when the cell just entered shows the terminal 'C', and the
\* answer's own level_completed is set exactly when the last outcome is such
\* a success; a batch that ends in a failure, or uses up its steps off the
\* terminal, answers level_completed = false.
C33_LevelCompletedIffTerminalEntered ==
    /\ MMLive =>
          \A j \in 1..Len(Outcomes) :
              Outcomes[j].result =>
                  (Outcomes[j].level_completed <=> OnTerminal(Outcomes[j].position))
    /\ MMDone =>
          LET last == response.steps[Len(response.steps)]
          IN  /\ Len(response.steps) >= 1
              /\ response.level_completed <=>
                    (last.result /\ OnTerminal(last.position))
              /\ last.result => last.level_completed = response.level_completed

\* C33 witness: a multi-move of several steps has answered level_completed,
\* its last outcome a success on the terminal with level_completed set, the
\* outcome before it a success off the terminal with level_completed unset.
C33_Witness ==
    /\ MMDone
    /\ response.level_completed
    /\ Len(response.steps) >= 2
    /\ LET n == Len(response.steps)
       IN  /\ response.steps[n].result
           /\ response.steps[n].level_completed
           /\ OnTerminal(response.steps[n].position)
           /\ response.steps[n - 1].result
           /\ ~response.steps[n - 1].level_completed
           /\ ~OnTerminal(response.steps[n - 1].position)

----------------------------------------------------------------------------
(* Claims about disconnects, checked under SpecEvents                       *)

StreamState(h) == streams[h].state

\* C34: after a subscriber disconnects its controller is out of the set and
\* no later broadcast is sent to it, while the other subscribers keep getting
\* every broadcast; a controller is in the set exactly from its subscription
\* until its disconnect or its first failed send.
C34_DisconnectedGetsNothing ==
    /\ [](\A h \in Handles :
              /\ Open(h) => h \in clients
              /\ StreamState(h) \in {"unused", "aborted"} =>
                    (h \notin clients /\ streams[h].received = << >>))
    /\ [][\A h \in Handles :
              /\ (h \notin clients /\ h \in clients') =>
                    (StreamState(h) = "unused" /\ Open(h)')
              /\ (h \in clients /\ h \notin clients') =>
                    \/ StreamState(h)' = "aborted"
                    \/ StreamState(h) = "cancelled" /\ NewlyEmitted # << >>
              /\ (StreamState(h) = "cancelled" /\ h \in clients /\ NewlyEmitted # << >>) =>
                    h \notin clients'
              /\ StreamState(h) = "aborted" => streams'[h] = streams[h]
              /\ (StreamState(h) # "aborted" /\ StreamState(h)' = "aborted") =>
                    \A g \in Handles \ {h} :
                        /\ streams'[g] = streams[g]
                        /\ g \in clients' <=> g \in clients
              /\ (Open(h) /\ Open(h)' /\ \E g \in Handles : StreamState(g) = "aborted") =>
                    streams'[h].received = streams[h].received \o NewlyEmitted
        ]_vars

\* C34 witness: the first stream has been aborted and the last input was a
\* command whose snapshot the second stream, still open and in the set,
\* received after its initial one.
C34_Witness ==
    /\ StreamState(1) = "aborted"
    /\ 1 \notin clients
    /\ Open(2) /\ 2 \in clients
    /\ pc = "idle"
    /\ request.cmd \notin {"abort", "subscribe"}
    /\ Len(emitted) >= 1
    /\ Len(streams[2].received) >= 2
    /\ streams[2].received[Len(streams[2].received)] = emitted[Len(emitted)]

----------------------------------------------------------------------------
(* Claims about where agents can be, checked under Spec                     *)

\* C35: the starting positions of every level being cells of the grid that
\* are neither a platform '#' nor a bridge 'Z', every agent is always on a
\* cell of the grid whose effective tile is neither '#' nor a raised 'Z',
\* whatever multi-move (with a valid agentIndex), switch-agent, use-switch,
\* reset and level/set commands were applied.
C35_AgentsStandOnFreeCells ==
    (\A l \in LevelIds :
        \A start \in {Levels[l].starting_position} \cup
                     (IF Levels[l].has_starting_position_2
                      THEN {Levels[l].starting_position_2} ELSE {}) :
            /\ start \in Cells(l)
            /\ Levels[l].layout[start.y + 1][start.x + 1] \notin {"#", "Z"})
    => \A k \in 1..Len(agents) :
           /\ agents[k] \in Cells(currentLevel)
           /\ ~Solid(agents[k])

\* C35 witness: in the two-agent level an agent moved by a multi-move stands
\* on a bridge cell, the bridges being lowered.
C35_Witness ==
    /\ Len(agents) = 2
    /\ bridgesActivated
    /\ MMDone
    /\ SuccessCount >= 1
    /\ RawTile(MovedAgent.x, MovedAgent.y) = "Z"
    /\ SeenTile(MovedAgent.x, MovedAgent.y) = "T"

\* The actions available at a position, by the rules of C30 and the
\* adjacency rule of the two use actions, in the order of the answer
ActionsAt(p) ==
    LET around == {RawTile(p.x, p.y), RawTile(p.x - 1, p.y), RawTile(p.x + 1, p.y),
                   RawTile(p.x, p.y - 1), RawTile(p.x, p.y + 1)}
    IN  Opt(RawTile(p.x - 1, p.y + 1) = "#", "multi_move[left]")
        \o Opt(RawTile(p.x + 1, p.y + 1) = "#", "multi_move[right]")
        \o Opt(RawTile(p.x, p.y) = "|", "multi_move[up]")
        \o Opt(RawTile(p.x, p.y + 1) = "|", "multi_move[down]")
        \o Opt("C" \in around, "use_pc")
        \o Opt("B" \in around, "use_button")

\* C36: the available_actions of each step outcome of a multi-move for
\* agent i are the actions available at the position that outcome reports
\* (agent i's position after the step, or its unchanged position on a
\* failure), also when agent i is not the active agent.
C36_OutcomeActionsAtOutcomePosition ==
    MMLive =>
        \A j \in 1..Len(Outcomes) :
            Outcomes[j].available_actions = ActionsAt(Outcomes[j].position)

\* C37: a multi-move for agent i changes only agent i's position: the other
\* agents' positions, the roster's size, the active agent index, the bridge
\* flag and the level are as before, also when agent i steps onto a switch
\* 'B' (stepping on a switch lowers no bridge).
C37_MultiMoveTouchesOneAgent ==
    [][/\ Takes("multiMove") => store' = store
       /\ (pc = "loop" \/ pc = "return") =>
             /\ UNCHANGED <<activeAgent, currentLevel, bridgesActivated>>
             /\ Len(agents') = Len(agents)
             /\ \A k \in 1..Len(agents) :
                   k # mm.agentIndex + 1 => agents'[k] = agents[k]
      ]_vars

\* C37 witness: in the two-agent level a multi-move has put its agent on the
\* switch and the bridges are still raised.
C37_Witness ==
    /\ MMDone
    /\ Len(agents) = 2
    /\ SuccessCount >= 1
    /\ RawTile(MovedAgent.x, MovedAgent.y) = "B"
    /\ MovedAgent = response.final_position
    /\ ~bridgesActivated

----------------------------------------------------------------------------
(* Claims about what observers are told of use-pc, checked under            *)
(* SpecObserved                                                             *)

\* The last command was a use-pc that succeeded
UsePcSucceeded ==
    /\ pc = "idle"
    /\ request.cmd = "useTerminal"
    /\ response.status = 200

\* The stream was sent a computer_interaction event with level_completed set
HasVictoryEvent(h) ==
    \E k \in 1..Len(streams[h].received) :
        /\ streams[h].received[k].type = "computer_interaction"
        /\ streams[h].received[k].level_completed

\* C38: after a use-pc that succeeded, every subscribed observer is
\* eventually sent a computer_interaction event with level_completed set
\* (unless its stream is closed first).
C38_VictoryEventReachesObservers ==
    \A h \in Handles :
        (UsePcSucceeded /\ Open(h)) ~> (HasVictoryEvent(h) \/ ~Open(h))

----------------------------------------------------------------------------
(* Claims about the agent message channel, checked under SpecAgentEvents    *)

\* The positions in agentMessages of the payloads of type add
AddsUpTo(n) == { k \in 1..n : agentMessages[k].type = "agent_message_add" }

\* C39: on the agent message channel the payloads of type add carry the ids
\* 1, 2, 3, ... in the order they are broadcast, every update_last payload
\* carries the id of the most recent add before it, and an update_last made
\* before any add is answered with an error, broadcasts nothing and leaves
\* the id counter as it was.
C39_AgentMessageIds ==
    /\ [](/\ lastMessageId = Cardinality(AddsUpTo(Len(agentMessages)))
          /\ \A k \in 1..Len(agentMessages) :
                /\ agentMessages[k].id = Cardinality(AddsUpTo(k))
                /\ agentMessages[k].type = "agent_message_update" =>
                      \E j \in AddsUpTo(k) :
                          /\ agentMessages[j].id = agentMessages[k].id
                          /\ \A i \in AddsUpTo(k) : i <= j)
    /\ [][(request'.cmd = "agentEvent" /\ request'.body.action = "update_last"
               /\ AddsUpTo(Len(agentMessages)) = {}) =>
             /\ RejectedAnswer(response')
             /\ UNCHANGED agentChannel
         ]_vars

\* C39 witness: two adds, each followed by an update, have been broadcast;
\* the second update carries the id 2 and the counter stands at 2.
C39_Witness ==
    /\ Len(agentMessages) = 4
    /\ agentMessages[1].type = "agent_message_add"
    /\ agentMessages[2].type = "agent_message_update"
    /\ agentMessages[3].type = "agent_message_add"
    /\ agentMessages[4].type = "agent_message_update"
    /\ agentMessages[4].id = 2
    /\ lastMessageId = 2

----------------------------------------------------------------------------
(* Claims about the grid-combat prototype, checked under SpecCombat         *)

Finished == gameState.gameStatus = "finished"

\* The step is an attack that brings a character's health to 0
KillingBlow ==
    /\ request'.cmd = "attackTarget"
    /\ response'.value
    /\ \E k \in 1..Len(gameState.characters) :
          /\ gameState'.characters[k].health = 0
          /\ gameState.characters[k].team # gameState.currentTurn

\* An attack that brings a health to 0 finishes the game for the attacker's
\* team, and a finished game keeps its status, its winner and its turn
FinishedIsFinal ==
    [][/\ KillingBlow =>
             /\ Finished'
             /\ gameState'.winner = gameState.currentTurn
       /\ Finished =>
             /\ Finished'
             /\ gameState'.winner = gameState.winner
             /\ gameState'.currentTurn = gameState.currentTurn
      ]_vars

\* In a finished game no character's health is below 0
NoHealthBelowZero ==
    Finished =>
        \A k \in 1..Len(gameState.characters) : gameState.characters[k].health >= 0

\* C40: in the grid-combat prototype, once an attack brings a character's
\* health to 0 the status is 'finished' and the winner is the attacker's
\* team, and whatever moveCharacter, attackTarget, endTurn and
\* updateGameSettings calls follow, the status stays 'finished', the winner
\* does not change, the turn does not pass to the other team and no
\* character's health is below 0.
C40_FinishedGameIsFinal ==
    /\ FinishedIsFinal
    /\ []NoHealthBelowZero

====
